---- MODULE Spec2Model ----
(***************************************************************************)
(* Deliberation & Consensus Engine of the governance kernel:               *)
(*   governance/gemini_council.py  GeminiCouncil (deliberate, reducer)     *)
(*   governance/mediator.py        spawn controller, human gate, mediator  *)
(*   core/token_manager.py         TokenManager (the Ledger)               *)
(*                                                                         *)
(* Numbers.  The code computes on binary doubles.  The model computes      *)
(* exactly on integers: a confidence is held in hundredths (0.9 is 90), a  *)
(* weight in halves (3.0 is 6, 1.0 is 2, 0.5 is 1), a verdict's score in   *)
(* halves (PASS 2, WARN 1, FAIL and ERROR 0), money in half micro-dollars. *)
(* round(final_score, 2) rounds the double: a quotient that lies on a      *)
(* decimal tie (k/200, k odd) goes the way the double nearest to k/200     *)
(* lies, which TieRoundsUp lists.  The reviews and weights the model draws *)
(* are values on which the double evaluation of the reducer gives the same *)
(* decision and the same rounded confidence as the exact one, for every    *)
(* panel of up to three agents.                                            *)
(*                                                                         *)
(* Names.  An agent name is the sequence of its '_'-separated segments     *)
(* ("Sec_Audit" is <<"Sec", "Audit">>), so that building a result key      *)
(* f"{name}_{i}" and taking key.split('_')[0] are modelled by what they    *)
(* do to the text.                                                         *)
(***************************************************************************)
EXTENDS Integers, Sequences, FiniteSets, TLC

VARIABLES
    agent_configs,       \* GeminiCouncil.agent_configs: name -> [weight, veto_power]
    agents,              \* GeminiCouncil.agents: the names of the panel, in order
    failure_policy,      \* GeminiCouncil.failure_policy
    session_spawns,      \* MediatorSpawnController.session_spawns: session -> count
    gemini_spend_today,  \* TokenManager.gemini_spend_today (half micro-dollars)
    pc,                  \* position of the deliberate call
    session_id,          \* session id of the current deliberate call
    raw_results,         \* what _run_agents returned (insertion order kept)
    reduced,             \* what _calculate_consensus returned
    mediator_calls,      \* attempt_resolution calls made by the current deliberate
    outcome,             \* what deliberate returned or raised
    last_call,           \* the last direct call on the mediator and what it gave
    circuit_breakers,    \* GeminiAgent.circuit_breakers: model -> [failures, last_failure_time]
    clock,               \* time.time(), in seconds since the agent was built
    last_query,          \* the last GeminiAgent.query call and what it gave
    groq_models,         \* GroqModelManager.models: name and per-minute counters
    current_model_index, \* GroqModelManager.current_model_index (0-based)
    last_route,          \* the last route_task / can_make_request call and its answer
    state_file,          \* the document at TokenManager.config_path, or NoFile
    today,               \* datetime.now().date(), in days since the model starts
    cost_today,          \* history: the cost recorded since the last day boundary
    memory_store,        \* GeminiCouncil.memory_store and its two files
    last_store,          \* the last call on the store or the feedback loop
    session_constraints, \* the language of the current deliberate call and the
                         \* constraints it passes to every agent's query
    history,             \* LoopDetector.history of the bus
    subscribers,         \* EventBus.subscribers: the callbacks of each event type
    last_publish,        \* the last publish call made on the bus with its
                         \* present subscribers, and what it did
    events,              \* history: the events published on the bus since the
                         \* last deliberate call began, or by the last
                         \* direct publish call, in order
    enforcing,           \* AdvisoryKernel.enforcing
    last_task,           \* how the last execute_task call of the kernel ended
    second_council,      \* what a second GeminiCouncil of the process holds
                         \* in memory: the lists of its MemoryStore and the
                         \* spend of its TokenManager, built on the same files
    mutations            \* history: what either council recorded

vars == <<agent_configs, agents, failure_policy, session_spawns,
          gemini_spend_today, pc, session_id,
          raw_results, reduced, mediator_calls, outcome, last_call,
          circuit_breakers, clock, last_query,
          groq_models, current_model_index, last_route,
          state_file, today, cost_today,
          memory_store, last_store, session_constraints,
          history, subscribers, last_publish, events,
          enforcing, last_task,
          second_council, mutations>>

store_vars == <<memory_store, last_store, session_constraints>>

bus_vars == <<history, subscribers, last_publish, events>>

kernel_vars == <<enforcing, last_task>>

shared_vars == <<second_council, mutations>>

ledger_vars == <<gemini_spend_today, state_file, today, cost_today>>

agent_vars == <<circuit_breakers, clock, last_query>>

groq_vars == <<groq_models, current_model_index, last_route>>

council_vars == <<agent_configs, agents, failure_policy, pc, session_id,
                  raw_results, reduced, mediator_calls, outcome>>

-----------------------------------------------------------------------------
(* Bounds of the model *)

MaxAgents == 2          \* longest panel
MaxSpawnCount == 4      \* direct record_spawn calls stop here (one past the cap)
MaxClock == 61          \* the clock stops here (one second past a recovery timeout)
MaxFailures == 6        \* no query starts with this many failures on a breaker
MaxRequests == 31       \* requests recorded on a model in a minute (one past rpm)
MaxTokensThisMinute == 71000  \* tokens recorded on a model in a minute
MaxSpend == 15000000    \* recorded spend stops here (one and a half daily budgets)
MaxRotationRequests == 4  \* Groq requests recorded over the whole chain
MaxDay == 1             \* the calendar stops at this day
MaxConstraints == 2     \* constraints the store holds
MaxIncidents == 2       \* incidents the store holds
MaxStoreDay == 31       \* the last day the store is called on
MaxReports == 1         \* outcomes reported to the council in the learning loop
MaxCallbacks == 2       \* callbacks subscribed to the bus

-----------------------------------------------------------------------------
(* Inputs *)

\* core/verdicts.py
VerdictType == {"PASS", "WARN", "FAIL", "ERROR"}

\* core/constraints.py
ConstraintTier == {"immutable", "validated", "experimental", "logged"}

\* "Lead" and "Val" are plain names; "Sec_Audit" holds an underscore.
AgentNames == {<<"Lead">>, <<"Val">>, <<"Sec", "Audit">>}

\* weights 0.0, 1.0 and 3.0, in halves
Weights == {0, 2, 6}

AgentConfig == [weight : Weights, veto_power : BOOLEAN]

\* What an agent's review can be.  The score of FAIL and ERROR is 0 whatever
\* the confidence; an ERROR carries confidence 0.0, as lines 145 and 155 of
\* gemini_council.py build it.
Reviews ==
    {[verdict |-> "PASS", confidence |-> 50],
     [verdict |-> "PASS", confidence |-> 90],
     [verdict |-> "PASS", confidence |-> 100],
     [verdict |-> "WARN", confidence |-> 100],
     [verdict |-> "FAIL", confidence |-> 90],
     [verdict |-> "ERROR", confidence |-> 0]}

TaskContexts == {"general", "security", "architecture"}

\* session ids (uuid texts) the mediator is called with
SessionIds == {"s1", "s2"}

\* str(uuid.uuid4()) of deliberate (line 52): the ids it can draw
DeliberateSessionIds == {"s1"}

Range(f) == {f[x] : x \in DOMAIN f}

\* the complexity deliberate and route_task are called with
Complexities == 1..5

Providers == {"groq", "google", "gemini"}

\* task_type of can_make_request
TaskTypes == {"general", "security"}

\* record_usage calls: Groq requests answered 200 or 429 on the flagship
\* model with few or many tokens, a Groq usage with no model, and Gemini
\* usages at the Pro and the Flash rate
Usages ==
    {[provider |-> "groq", tokens |-> t, model |-> "llama-3.3-70b-versatile",
      status_code |-> c] : t \in {1000, 40000}, c \in {200, 429}}
    \cup {[provider |-> "groq", tokens |-> 1000, model |-> "", status_code |-> 200],
          [provider |-> "google", tokens |-> 1000000, model |-> "gemini-3-pro",
           status_code |-> 200],
          [provider |-> "google", tokens |-> 5000000, model |-> "gemini-3-flash",
           status_code |-> 200]}

\* record_usage calls on Groq that exercise the rotation: each model of the
\* default chain, a model the manager does not hold and no model, answered
\* 200, 429 or 500
RotationUsages ==
    {[provider |-> "groq", tokens |-> 1000, model |-> m, status_code |-> c] :
        m \in {"llama-3.3-70b-versatile", "mixtral-8x7b-32768",
               "llama3-70b-8192", "llama3-8b-8192", ""},
        c \in {200, 429, 500}}

\* record_usage calls on Gemini: Pro usages worth 4.9925 and 5.0 dollars and
\* a Flash usage worth 2.5 dollars; and one Groq usage
BudgetUsages ==
    {[provider |-> "groq", tokens |-> 1000, model |-> "llama-3.3-70b-versatile",
      status_code |-> 200],
     [provider |-> "google", tokens |-> 998500, model |-> "gemini-3-pro",
      status_code |-> 200],
     [provider |-> "google", tokens |-> 1000000, model |-> "gemini-3-pro",
      status_code |-> 200],
     [provider |-> "google", tokens |-> 5000000, model |-> "gemini-3-flash",
      status_code |-> 200]}

\* estimated_tokens of can_make_request: the default and the mediator's
\* second estimate
EstimatedTokens == {1000, 1500}

\* panels: sequences of distinct agent names, up to MaxAgents long
Panels ==
    {p \in UNION {[1..n -> AgentNames] : n \in 0..MaxAgents} :
        \A i, j \in DOMAIN p : i # j => p[i] # p[j]}

-----------------------------------------------------------------------------
(* core/groq_model_manager.py *)

\* GroqModel defaults, which every model of the default chain is built with
rate_limit_rpm == 30

rate_limit_tpm == 40000

\* GroqModelManager.__init__: the default chain, counters at zero
DefaultGroqModels ==
    [i \in 1..3 |->
        [name |-> <<"llama-3.3-70b-versatile", "mixtral-8x7b-32768",
                    "llama3-70b-8192">>[i],
         requests_this_minute |-> 0, tokens_this_minute |-> 0]]

\* a GroqModelManager is [models, current_model_index]; the index is 0-based
NewGroqManager == [models |-> DefaultGroqModels, current_model_index |-> 0]

\* _start_reset_task: reset_loop is defined and never scheduled (line 45 is
\* pass), so the call leaves the manager as it is
_start_reset_task(manager) == manager

\* _reset_minute_counts
_reset_minute_counts(manager) ==
    [manager EXCEPT !.models =
        [i \in DOMAIN manager.models |->
            [manager.models[i] EXCEPT !.requests_this_minute = 0,
                                      !.tokens_this_minute = 0]]]

get_current_model(manager) == manager.models[manager.current_model_index + 1]

rotate_model(manager) ==
    [manager EXCEPT !.current_model_index =
        (manager.current_model_index + 1) % Len(manager.models)]

\* next((m for m in self.models if m.name == model_name), None): the position
\* of the first model of that name, 0 for None
model_position(manager, model_name) ==
    IF \E i \in DOMAIN manager.models : manager.models[i].name = model_name
    THEN CHOOSE i \in DOMAIN manager.models :
            /\ manager.models[i].name = model_name
            /\ \A j \in 1..(i - 1) : manager.models[j].name # model_name
    ELSE 0

\* GroqModelManager.can_make_request; wait in seconds
groq_can_make_request(manager, model_name, estimated_tokens) ==
    LET i == model_position(manager, model_name) IN
    IF i = 0
    THEN [allowed |-> FALSE, reason |-> "Model not found", wait |-> 0]
    ELSE IF manager.models[i].requests_this_minute >= rate_limit_rpm
    THEN [allowed |-> FALSE, reason |-> "Rate limit exceeded", wait |-> 60]
    ELSE [allowed |-> TRUE, reason |-> "OK", wait |-> 0]

\* GroqModelManager.record_request
record_request(manager, model_name, tokens_used, status_code) ==
    LET i == model_position(manager, model_name) IN
    IF i = 0 THEN manager
    ELSE LET counted ==
                [manager EXCEPT
                    !.models[i].requests_this_minute = @ + 1,
                    !.models[i].tokens_this_minute = @ + tokens_used]
         IN  IF status_code = 429 THEN rotate_model(counted) ELSE counted

\* "70b" in model.name
has_70b(model_name) == model_name \in {"llama-3.3-70b-versatile", "llama3-70b-8192"}

\* GroqModelManager.get_model_for_task
get_model_for_task(manager, complexity, task_type) ==
    IF /\ task_type = "security" /\ complexity >= 4
       /\ \E i \in DOMAIN manager.models : has_70b(manager.models[i].name)
    THEN manager.models[CHOOSE i \in DOMAIN manager.models :
            /\ has_70b(manager.models[i].name)
            /\ \A j \in 1..(i - 1) : ~has_70b(manager.models[j].name)]
    ELSE get_current_model(manager)

-----------------------------------------------------------------------------
(* core/token_manager.py: the Ledger *)

\* ProviderLimits.daily_budget = 5.0 dollars, in half micro-dollars
daily_budget == 10000000

\* cost of one token at the Pro rate, 0.000005 dollars, in half micro-dollars
pro_rate == 10

\* cost of one token at the Flash rate, 0.0000005 dollars
flash_rate == 1

\* a TokenManager is [gemini_spend_today, groq_manager]; this is one with the
\* given spend whose Groq manager was never used
TokenManagerAt(spend) == [gemini_spend_today |-> spend, groq_manager |-> NewGroqManager]

\* the (spend, cost) pairs whose exact sum is the daily budget and whose sum
\* in doubles lies above 5.0: 998500 * 0.000005 + 1500 * 0.000005 gives
\* 5.000000000000001
DoubleSumAboveBudget == {<<9985000, 15000>>}

\* self.gemini_spend_today + cost > self.limits.daily_budget, as the doubles
\* decide it (line 75)
exceeds_daily_budget(spend, cost) ==
    IF spend + cost = daily_budget
    THEN <<spend, cost>> \in DoubleSumAboveBudget
    ELSE spend + cost > daily_budget

\* TokenManager.can_make_request; "" stands for the model None
can_make_request(token_manager, provider, estimated_tokens, complexity, task_type) ==
    IF provider = "groq"
    THEN LET model == get_model_for_task(token_manager.groq_manager,
                                         complexity, task_type)
             r == groq_can_make_request(token_manager.groq_manager, model.name,
                                        estimated_tokens)
         IN  [allowed |-> r.allowed, reason |-> r.reason, wait |-> r.wait,
              model |-> model.name]
    ELSE IF provider = "google"
    THEN IF exceeds_daily_budget(token_manager.gemini_spend_today,
                                 estimated_tokens * pro_rate)
         THEN [allowed |-> FALSE, reason |-> "Budget Exceeded", wait |-> 0,
               model |-> ""]
         ELSE [allowed |-> TRUE, reason |-> "OK", wait |-> 0,
               model |-> "gemini-1.5-pro"]
    ELSE [allowed |-> FALSE, reason |-> "Unknown Provider", wait |-> 0,
          model |-> ""]

\* "flash" in (model or "").lower()
is_flash(model) == model \in {"gemini-3-flash", "gemini-2.5-flash"}

\* TokenManager.record_usage; model "" stands for None
record_usage(token_manager, provider, tokens, model, status_code) ==
    IF provider = "groq"
    THEN IF model # ""
         THEN [token_manager EXCEPT !.groq_manager =
                    record_request(@, model, tokens, status_code)]
         ELSE token_manager
    ELSE IF provider = "google"
    THEN [token_manager EXCEPT !.gemini_spend_today =
                @ + tokens * (IF is_flash(model) THEN flash_rate ELSE pro_rate)]
    ELSE token_manager

\* the default arguments of can_make_request (line 56)
default_estimated_tokens == 1000

default_complexity == 1

\* what a TokenManager can load as today's spend at construction
SpendLevels == {0, daily_budget \div 2, daily_budget - 1}

\* config_path does not exist
NoFile == [gemini_spend |-> 0, date |-> "none"]

\* str(datetime.now().date()), for the day counted from the model's start
str_date(day) == <<"2026-01-01", "2026-01-02", "2026-01-03">>[day + 1]

\* TokenManager._load_state, after __init__ set the spend to 0.0: gives the
\* spend of the new TokenManager
_load_state(file, day) ==
    IF file = NoFile THEN 0
    ELSE IF file.date # str_date(day) THEN 0
    ELSE file.gemini_spend

\* TokenManager._save_state: gives the document written
_save_state(token_manager, day) ==
    [gemini_spend |-> token_manager.gemini_spend_today, date |-> str_date(day)]

\* the state file and the calendar when the model starts: a TokenManager
\* that holds a spend recorded it today and saved it
LedgerFileAtConstruction ==
    /\ today = 0
    /\ cost_today = gemini_spend_today
    /\ state_file = IF gemini_spend_today = 0 THEN NoFile
                    ELSE [gemini_spend |-> gemini_spend_today,
                          date |-> str_date(0)]

-----------------------------------------------------------------------------
(* governance/mediator.py *)

max_spawns == 3

\* spawn_cost_multiplier [1.0, 1.5, 2.0], in halves
spawn_cost_multiplier == <<2, 3, 4>>

base_cost == 4000

\* int(base_cost * multiplier) of the attempt made after `count` spawns
estimated_cost(count) == (base_cost * spawn_cost_multiplier[count + 1]) \div 2

NoLedgerCall == [provider |-> "", estimated_tokens |-> 0]

\* can_spawn_mediator with the cap tested by > : with max_spawns spawns
\* recorded, spawn_cost_multiplier[count] raises IndexError
can_spawn_mediator_off_by_one(count, spend, in_event_loop) ==
    IF count > max_spawns
    THEN [kind |-> "return", ok |-> FALSE, reason |-> <<"Max spawns reached">>,
          ledger_call |-> NoLedgerCall]
    ELSE IF count >= Len(spawn_cost_multiplier)
    THEN [kind |-> "raise", ok |-> FALSE, reason |-> <<"IndexError">>,
          ledger_call |-> NoLedgerCall]
    ELSE IF in_event_loop
    THEN [kind |-> "raise", ok |-> FALSE, reason |-> <<"RuntimeError">>,
          ledger_call |-> NoLedgerCall]
    ELSE LET r == can_make_request(TokenManagerAt(spend), "gemini", estimated_cost(count),
                                   default_complexity, "general") IN
         [kind |-> "return", ok |-> r.allowed,
          reason |-> IF r.allowed THEN <<"OK">>
                     ELSE <<"Budget insufficient", r.reason>>,
          ledger_call |-> [provider |-> "gemini",
                           estimated_tokens |-> estimated_cost(count)]]

\* MediatorSpawnController.can_spawn_mediator.  in_event_loop: the caller runs
\* inside a running asyncio event loop, where asyncio.run (line 27) raises
\* RuntimeError before the Ledger is asked.
can_spawn_mediator(count, spend, in_event_loop) ==
    IF count >= max_spawns
    THEN [kind |-> "return", ok |-> FALSE, reason |-> <<"Max spawns reached">>,
          ledger_call |-> NoLedgerCall]
    ELSE IF in_event_loop
    THEN [kind |-> "raise", ok |-> FALSE,
          reason |-> <<"RuntimeError", "asyncio.run() cannot be called from a running event loop">>,
          ledger_call |-> NoLedgerCall]
    ELSE LET r == can_make_request(TokenManagerAt(spend), "gemini", estimated_cost(count),
                                   default_complexity, "general") IN
         IF ~r.allowed
         THEN [kind |-> "return", ok |-> FALSE,
               reason |-> <<"Budget insufficient", r.reason>>,
               ledger_call |-> [provider |-> "gemini",
                                estimated_tokens |-> estimated_cost(count)]]
         ELSE [kind |-> "return", ok |-> TRUE, reason |-> <<"OK">>,
               ledger_call |-> [provider |-> "gemini",
                                estimated_tokens |-> estimated_cost(count)]]

\* MediatorInvariantPolicy
immutable_tiers == {"TIER_1", "HARD_INVARIANT"}

can_modify(constraint_tier) == constraint_tier \notin immutable_tiers

\* HumanGateSystem.should_require_human; confidence in hundredths
should_require_human(task_type, confidence) ==
    IF task_type \in {"security", "architecture"} THEN TRUE
    ELSE confidence < 80

\* CivilizedMediator._simulate_cove_analysis
_simulate_cove_analysis(data) ==
    [disagreement_point |-> "Logic structure vs Security pattern",
     analysis_confidence |-> 85]

\* CivilizedMediator._validate_constraints
_validate_constraints(analysis, data) == TRUE

\* CivilizedMediator._simulate_resolution_generation
_simulate_resolution_generation(analysis) ==
    [verdict |-> "COMPROMISE",
     rewritten_instructions |-> "Refactor the logic to separate the security concern.",
     confidence |-> 82]

NoResolution == [verdict |-> "", rewritten_instructions |-> "", confidence |-> 0]

\* stages 2-5 of attempt_resolution (lines 79-107), taken once the spawn is
\* recorded: ANALYZE, INVARIANT_CHECK, RESOLVE, HUMAN_GATE
resolution_stages(deadlock_data) ==
    LET analysis == _simulate_cove_analysis(deadlock_data) IN
    IF ~_validate_constraints(analysis, deadlock_data)
    THEN [action |-> "HALT", reason |-> <<"Resolution violated Hard Invariants">>,
          resolution |-> NoResolution, requires_human |-> FALSE]
    ELSE LET resolution == _simulate_resolution_generation(analysis) IN
         [action |-> "APPLY_RESOLUTION", reason |-> <<>>,
          resolution |-> resolution,
          requires_human |-> should_require_human("general", resolution.confidence)]

NoMediation ==
    [action |-> "NONE", reason |-> <<>>, resolution |-> NoResolution,
     requires_human |-> FALSE]

\* CivilizedMediator.attempt_resolution, a coroutine: it always runs inside a
\* running event loop.  kind: "return" or "raise"; spawned: record_spawn ran.
attempt_resolution(deadlock_data, count, spend) ==
    LET check == can_spawn_mediator(count, spend, TRUE) IN
    IF check.kind = "raise"
    THEN [kind |-> "raise", spawned |-> FALSE, ledger_call |-> check.ledger_call,
          result |-> [NoMediation EXCEPT !.reason = check.reason]]
    ELSE IF ~check.ok
    THEN [kind |-> "return", spawned |-> FALSE, ledger_call |-> check.ledger_call,
          result |-> [NoMediation EXCEPT !.action = "HALT", !.reason = check.reason]]
    ELSE [kind |-> "return", spawned |-> TRUE, ledger_call |-> check.ledger_call,
          result |-> resolution_stages(deadlock_data)]

\* MediatorSpawnController.record_spawn
record_spawn(spawns, sid) == [spawns EXCEPT ![sid] = spawns[sid] + 1]

-----------------------------------------------------------------------------
(* governance/gemini_council.py: the reducer *)

\* f"{agent.name}_{i}" (line 134)
IndexText(i) == <<"0", "1", "2", "3">>[i + 1]

ResultKey(name, i) == name \o <<IndexText(i)>>

\* key.split('_')[0] (lines 142 and 171)
AgentNameOfKey(key) == <<Head(key)>>

DefaultConfig == [weight |-> 2, veto_power |-> FALSE]

\* self.agent_configs.get(agent_name, {"weight": 1.0, "veto_power": False})
ConfigOfKey(configs, key) ==
    IF AgentNameOfKey(key) \in DOMAIN configs
    THEN configs[AgentNameOfKey(key)]
    ELSE DefaultConfig

\* score_map, in halves
score_map(verdict) ==
    CASE verdict = "PASS" -> 2
      [] verdict = "WARN" -> 1
      [] OTHER -> 0

RECURSIVE total_score(_, _)
total_score(results, configs) ==
    IF results = <<>> THEN 0
    ELSE score_map(Head(results).verdict) * Head(results).confidence
            * ConfigOfKey(configs, Head(results).key).weight
         + total_score(Tail(results), configs)

RECURSIVE total_weight(_, _)
total_weight(results, configs) ==
    IF results = <<>> THEN 0
    ELSE ConfigOfKey(configs, Head(results).key).weight
         + total_weight(Tail(results), configs)

RECURSIVE blocking_agents(_, _)
blocking_agents(results, configs) ==
    IF results = <<>> THEN <<>>
    ELSE (IF ConfigOfKey(configs, Head(results).key).veto_power
             /\ Head(results).verdict = "FAIL"
          THEN <<AgentNameOfKey(Head(results).key)>>
          ELSE <<>>)
         \o blocking_agents(Tail(results), configs)

\* The odd k for which round(k/200, 2) goes up: the double nearest to k/200
\* lies above the tie, or on it with the even neighbour above.
TieRoundsUp ==
    {1, 5, 7, 11, 13, 17, 19, 23, 27, 33, 39, 45, 51, 53, 55, 63, 65, 67, 75,
     77, 79, 81, 89, 91, 93, 101, 103, 105, 107, 109, 111, 127, 129, 131, 133,
     135, 137, 151, 153, 155, 157, 159, 161, 175, 177, 179, 181, 183, 185, 187}

\* round(final_score, 2) in hundredths; final_score = ts / (200 * tw)
round2(ts, tw) ==
    LET q == ts \div (2 * tw)
        r == ts % (2 * tw)
    IN  IF r > tw THEN q + 1
        ELSE IF r = tw /\ (2 * q + 1) \in TieRoundsUp THEN q + 1
        ELSE q

\* band with the PASS threshold at 0.6
band_pass_at_060(ts, tw) ==
    IF ts >= 120 * tw THEN "PASS"
    ELSE IF ts >= 80 * tw THEN "WARN"
    ELSE "FAIL"

\* band with the thresholds themselves left to the lower band
band_exclusive(ts, tw) ==
    IF ts > 140 * tw THEN "PASS"
    ELSE IF ts > 80 * tw THEN "WARN"
    ELSE "FAIL"

\* the banding of lines 194-196, on final_score = ts / (200 * tw)
band(ts, tw) ==
    IF ts >= 140 * tw THEN "PASS"
    ELSE IF ts >= 80 * tw THEN "WARN"
    ELSE "FAIL"

\* GeminiCouncil._calculate_consensus
_calculate_consensus(results, configs) ==
    LET ts == total_score(results, configs)
        tw == total_weight(results, configs)
        blocking == blocking_agents(results, configs)
    IN  IF blocking # <<>>
        THEN [decision |-> "FAIL", confidence |-> 100,
              reason |-> <<"Blocked by Veto">> \o blocking]
        ELSE IF tw = 0
        THEN [decision |-> "FAIL", confidence |-> 0,
              reason |-> <<"No valid votes cast">>]
        ELSE [decision |-> band(ts, tw), confidence |-> round2(ts, tw),
              reason |-> <<"Weighted Score">>]

NoConsensus == [decision |-> "", confidence |-> 0, reason |-> <<>>]

\* review.get("verdict") (line 174) raises AttributeError on a review that is
\* not a dict
reducer_raises(results) == \E i \in DOMAIN results : results[i].type # "dict"

NoOutcome ==
    [kind |-> "none", consensus |-> NoConsensus, mediation |-> NoMediation,
     fallback |-> FALSE]

\* GeminiCouncil._handle_failure
_handle_failure(policy, error_msg) ==
    IF policy = "fail_closed"
    THEN [kind |-> "raise",
          consensus |-> [NoConsensus EXCEPT
                            !.reason = <<"Council Failure (CLOSED)">> \o error_msg],
          mediation |-> NoMediation, fallback |-> FALSE]
    ELSE [kind |-> "return",
          consensus |-> [decision |-> "WARN", confidence |-> 0,
                         reason |-> <<"Council Failed">> \o error_msg],
          mediation |-> NoMediation, fallback |-> TRUE]

\* the default hierarchy _run_agents installs (lines 120-124)
DefaultHierarchy ==
    [n \in {<<"LeadArchitect">>, <<"AdversarialValidator">>} |->
        IF n = <<"LeadArchitect">>
        THEN [weight |-> 6, veto_power |-> FALSE]
        ELSE [weight |-> 2, veto_power |-> TRUE]]

\* the deadlock band of line 76, on the rounded confidence
in_deadlock_band(consensus) ==
    40 <= consensus.confidence /\ consensus.confidence <= 60

\* steps 3-4 of deliberate (lines 73-102) and its exception handler (lines
\* 107-109): reduce, mediate a deadlock, return.  The result holds the outcome
\* of the call and what the mediator was given.
conclude(results, configs, policy, count, spend, context) ==
    LET consensus == _calculate_consensus(results, configs)
        deadlock_data == [situation |-> "Council Consensus Weak",
                          conflicting_perspectives |-> results,
                          task_context |-> context]
        m == attempt_resolution(deadlock_data, count, spend)
    IN  IF reducer_raises(results)
        THEN [calls |-> 0, spawned |-> FALSE,
              outcome |-> _handle_failure(policy,
                    <<"AttributeError", "'list' object has no attribute 'get'">>)]
        ELSE IF ~in_deadlock_band(consensus)
        THEN [calls |-> 0, spawned |-> FALSE,
              outcome |-> [kind |-> "return", consensus |-> consensus,
                           mediation |-> NoMediation, fallback |-> FALSE]]
        ELSE IF m.kind = "raise"
        THEN [calls |-> 1, spawned |-> m.spawned,
              outcome |-> _handle_failure(policy, m.result.reason)]
        ELSE IF m.result.action = "APPLY_RESOLUTION"
        THEN [calls |-> 1, spawned |-> m.spawned,
              outcome |->
                [kind |-> "return",
                 consensus |->
                    [decision |-> IF m.result.resolution.verdict = "COMPROMISE"
                                  THEN "PASS" ELSE "FAIL",
                     confidence |-> consensus.confidence,
                     reason |-> consensus.reason \o
                        <<"MEDIATED", m.result.resolution.rewritten_instructions>>],
                 mediation |-> m.result, fallback |-> FALSE]]
        ELSE [calls |-> 1, spawned |-> m.spawned,
              outcome |-> [kind |-> "return", consensus |-> consensus,
                           mediation |-> m.result, fallback |-> FALSE]]

NoCall ==
    [op |-> "none", session |-> "", task_context |-> "", count_before |-> 0,
     kind |-> "none", spawned |-> FALSE, ledger_call |-> NoLedgerCall,
     result |-> NoMediation]

-----------------------------------------------------------------------------
(* governance/adaptive_router.py *)

\* route_task with the fast tier reaching up to complexity 3
route_task_fast_up_to_3(token_manager, complexity) ==
    IF complexity <= 3
    THEN [primary_provider |-> "google", model |-> "gemini-3-flash",
          reason |-> <<"Trivial Task">>, max_tokens |-> 2000]
    ELSE IF complexity <= 4
    THEN LET r == can_make_request(token_manager, "groq", default_estimated_tokens,
                                   complexity, "general")
         IN  IF r.allowed
             THEN [primary_provider |-> "groq", model |-> r.model,
                   reason |-> <<"Standard Validation">>, max_tokens |-> 4000]
             ELSE [primary_provider |-> "google", model |-> "gemini-2.5-flash",
                   reason |-> <<"Groq Limited", r.reason>>, max_tokens |-> 4000]
    ELSE [primary_provider |-> "google", model |-> "gemini-3-pro",
          reason |-> <<"Complex Task">>, max_tokens |-> 8192]

\* AdaptiveRouter.route_task; the result is the RoutingDecision
route_task(token_manager, complexity) ==
    IF complexity <= 2
    THEN [primary_provider |-> "google", model |-> "gemini-3-flash",
          reason |-> <<"Trivial Task">>, max_tokens |-> 2000]
    ELSE IF complexity <= 4
    THEN LET r == can_make_request(token_manager, "groq", default_estimated_tokens,
                                   complexity, "general")
         IN  IF r.allowed
             THEN [primary_provider |-> "groq", model |-> r.model,
                   reason |-> <<"Standard Validation">>, max_tokens |-> 4000]
             ELSE [primary_provider |-> "google", model |-> "gemini-2.5-flash",
                   reason |-> <<"Groq Limited", r.reason>>, max_tokens |-> 4000]
    ELSE [primary_provider |-> "google", model |-> "gemini-3-pro",
          reason |-> <<"Complex Task">>, max_tokens |-> 8192]

NoDecision == [primary_provider |-> "", model |-> "", reason |-> <<>>, max_tokens |-> 0]

\* what a caller can pass as complexity: an int, or (the annotation is not
\* enforced) None
ComplexityArguments ==
    {[type |-> "int", value |-> c] : c \in Complexities}
    \cup {[type |-> "NoneType", value |-> 0]}

\* await route_task(description, complexity) for such an argument: the
\* comparison complexity <= 2 (line 27) raises TypeError on None
route_task_call(token_manager, argument) ==
    IF argument.type # "int"
    THEN [kind |-> "raise", error |-> <<"TypeError">>, decision |-> NoDecision]
    ELSE [kind |-> "return", error |-> <<>>,
          decision |-> route_task(token_manager, argument.value)]

NoAnswer == [allowed |-> FALSE, reason |-> "", wait |-> 0, model |-> ""]

NoRoute ==
    [op |-> "none", provider |-> "", complexity |-> 0, task_type |-> "",
     model |-> "", status_code |-> 0, index_before |-> 0,
     estimated_tokens |-> 0,
     answer |-> NoAnswer, decision |-> NoDecision]

\* the TokenManager the variables hold
TokenManager ==
    [gemini_spend_today |-> gemini_spend_today,
     groq_manager |-> [models |-> groq_models,
                       current_model_index |-> current_model_index]]

\* the Groq manager as TokenManager.__init__ builds it (line 24); nothing was
\* routed yet
LedgerAtConstruction ==
    /\ groq_models = _start_reset_task(NewGroqManager).models
    /\ current_model_index = _start_reset_task(NewGroqManager).current_model_index
    /\ last_route = NoRoute

-----------------------------------------------------------------------------
(* core/constraints.py and core/store.py: the Constraint Store.     *)
(* A datetime is a number of days since the model starts; None is NoTime   *)
(* for a datetime and "" for a text.                                       *)

NoTime == -1

\* timedelta(days=30)
thirty_days == 30

\* len(text) of the texts the model uses as patterns
len(text) ==
    CASE text = "eval(user_input)" -> 16
      [] text = "os.system" -> 9
      [] text = "Unknown" -> 7
      [] text = "ab" -> 2
      [] text = "fail fast on bad input" -> 22
      [] OTHER -> 0

\* Constraint(id=..., description=..., pattern=...) with the defaults of the
\* class, built at the instant now
NewConstraint(id, description, pattern, now) ==
    [id |-> id, description |-> description, pattern |-> pattern,
     tier |-> "experimental", scope |-> [language |-> "", domain |-> "general"],
     source |-> "system", created_at |-> now, expires_at |-> NoTime,
     active |-> TRUE, metadata |-> [warning |-> "", original_error |-> ""]]

\* Constraint.is_expired
is_expired(constraint, now) ==
    constraint.expires_at # NoTime /\ now > constraint.expires_at

\* matches without the shortcut of lines 39-40 for the domain general
matches_domain_only(constraint, language, domain) ==
    IF constraint.scope.language # "" /\ constraint.scope.language # language
    THEN FALSE
    ELSE constraint.scope.domain = "general" \/ constraint.scope.domain = domain

\* Constraint.matches
matches(constraint, language, domain) ==
    IF constraint.scope.language # "" /\ constraint.scope.language # language
    THEN FALSE
    ELSE IF domain = "general" THEN TRUE
    ELSE constraint.scope.domain = "general" \/ constraint.scope.domain = domain

\* datetime.isoformat(), as model_dump(mode='json') writes a datetime
isoformat(time) == IF time = NoTime THEN "null" ELSE ToString(time)

\* the instants the model can hold
Instants == 0..100

\* the datetime pydantic parses from the text of a document
fromisoformat(text) ==
    IF text = "null" THEN NoTime
    ELSE CHOOSE time \in Instants : ToString(time) = text

\* c.model_dump(mode='json'): the datetimes become texts
model_dump(constraint) ==
    [constraint EXCEPT !.created_at = isoformat(@), !.expires_at = isoformat(@)]

\* Constraint(**c) on an entry of constraints.json without the active flag:
\* the flag takes its default
Constraint_active_default(document) ==
    [document EXCEPT !.created_at = fromisoformat(@),
                     !.expires_at = fromisoformat(@),
                     !.active = TRUE]

\* Constraint(**c) on an entry of constraints.json (line 29)
Constraint_of(document) ==
    [document EXCEPT !.created_at = fromisoformat(@),
                     !.expires_at = fromisoformat(@)]

\* a path that does not exist
NoDocument == [exists |-> FALSE, content |-> <<>>]

\* a MemoryStore is [constraints, incidents, constraints_file, incidents_file]
\* MemoryStore._load_constraints
_load_constraints(constraints_file) ==
    IF ~constraints_file.exists THEN <<>>
    ELSE [i \in DOMAIN constraints_file.content |->
             Constraint_of(constraints_file.content[i])]

\* MemoryStore._load_incidents
_load_incidents(incidents_file) ==
    IF ~incidents_file.exists THEN <<>> ELSE incidents_file.content

\* MemoryStore.__init__ on a storage directory
NewMemoryStore(constraints_file, incidents_file) ==
    [constraints |-> _load_constraints(constraints_file),
     incidents |-> _load_incidents(incidents_file),
     constraints_file |-> constraints_file,
     incidents_file |-> incidents_file]

\* MemoryStore.save
save(store) ==
    [store EXCEPT
        !.constraints_file =
            [exists |-> TRUE,
             content |-> [i \in DOMAIN store.constraints |->
                             model_dump(store.constraints[i])]],
        !.incidents_file = [exists |-> TRUE, content |-> store.incidents]]

\* add_constraint with the anti-poisoning test at one character
add_constraint_below_2(store, constraint, now) ==
    LET checked ==
            IF len(constraint.pattern) < 2
            THEN [constraint EXCEPT
                    !.active = FALSE,
                    !.metadata.warning = "Overly broad pattern detected"]
            ELSE constraint
        dated ==
            IF checked.tier = "experimental" /\ checked.expires_at = NoTime
            THEN [checked EXCEPT !.expires_at = now + thirty_days]
            ELSE checked
    IN  save([store EXCEPT !.constraints = Append(@, dated)])

\* MemoryStore.add_constraint, called at the instant now
add_constraint(store, constraint, now) ==
    LET checked ==
            IF len(constraint.pattern) < 3
            THEN [constraint EXCEPT
                    !.active = FALSE,
                    !.metadata.warning = "Overly broad pattern detected"]
            ELSE constraint
        dated ==
            IF checked.tier = "experimental" /\ checked.expires_at = NoTime
            THEN [checked EXCEPT !.expires_at = now + thirty_days]
            ELSE checked
    IN  save([store EXCEPT !.constraints = Append(@, dated)])

\* MemoryStore.get_active_constraints, called at the instant now
get_active_constraints(store, language, domain, now) ==
    SelectSeq(store.constraints,
              LAMBDA c : c.active /\ ~is_expired(c, now)
                         /\ matches(c, language, domain))

\* MemoryStore.record_incident, called at the instant now
record_incident(store, incident, now) ==
    save([store EXCEPT
            !.incidents = Append(@, [incident EXCEPT !.timestamp = isoformat(now)])])

-----------------------------------------------------------------------------
(* governance/feedback_loop.py *)

\* a key the details dict does not hold
NoKey == "<no key>"

\* details.get(key, default)
details_get(details, key, default) ==
    IF details[key] = NoKey THEN default ELSE details[key]

\* "security" in error_msg.lower(), for the error texts of the model
mentions_security(error_msg) ==
    error_msg \in {"Security Breach: eval used", "insecure security group"}

\* FeedbackLoop._learn_from_failure; new_id is f"C-{str(uuid.uuid4())[:8]}".
\* The description quotes error_msg[:50]; it is held as the text it quotes
\* (every error text of the model is shorter than 50 characters).
_learn_from_failure(store, details, now, new_id) ==
    LET error_msg == details_get(details, "error", "Unknown runtime error")
        pattern == details_get(details, "failed_line", "Unknown")
        new_constraint ==
            [NewConstraint(new_id, error_msg, pattern, now) EXCEPT
                !.tier = "experimental",
                !.source = "reflexion_loop",
                !.scope = [language |-> "",
                           domain |-> IF mentions_security(error_msg)
                                      THEN "security" ELSE "general"],
                !.metadata.original_error = error_msg]
    IN  add_constraint(store, new_constraint, now)

\* the incident record_outcome builds (lines 26-31)
incident_record(verdict, reported_outcome, details) ==
    [verdict_id |-> verdict.session_id, decision |-> verdict.decision,
     outcome |-> reported_outcome, details |-> details, timestamp |-> ""]

\* record_outcome that learns from the outcome FAILURE only
record_outcome_failure_only(store, verdict, reported_outcome, details, now, new_id) ==
    LET recorded == record_incident(store,
                        incident_record(verdict, reported_outcome, details), now)
    IN  IF verdict.decision = "PASS" /\ reported_outcome = "FAILURE"
        THEN _learn_from_failure(recorded, details, now, new_id)
        ELSE recorded

\* FeedbackLoop.record_outcome; verdict is [session_id, decision], the
\* decision being verdict["consensus"]["decision"]
record_outcome(store, verdict, reported_outcome, details, now, new_id) ==
    LET recorded == record_incident(store,
                        incident_record(verdict, reported_outcome, details), now)
    IN  IF verdict.decision = "PASS" /\ reported_outcome \in {"FAILURE", "INCIDENT"}
        THEN _learn_from_failure(recorded, details, now, new_id)
        ELSE recorded

\* no call on the store yet
NoStoreCall ==
    [op |-> "none", language |-> "", domain |-> "", argument |-> <<>>,
     result |-> <<>>]

\* deliberate's default language (line 48)
default_language == "python"

\* no deliberate call fetched constraints yet
NoSessionConstraints == [language |-> "", constraints |-> <<>>]

\* MemoryStore(storage_dir) on an empty directory, as test_phase3.py sets it
\* up, and a council that did not deliberate yet
StoreAtConstruction ==
    /\ memory_store = NewMemoryStore(NoDocument, NoDocument)
    /\ last_store = NoStoreCall
    /\ session_constraints = NoSessionConstraints

-----------------------------------------------------------------------------
(* core/event_bus.py: the bus and its loop detector.  The council and the   *)
(* mediator read nothing back from the bus; what their publish calls do is  *)
(* followed in BusSpec.                                                     *)

\* LoopDetector.__init__
max_history == 10

threshold == 3

\* check returns None
NoLoop == [agent |-> "", action |-> "", target |-> "", count |-> 0]

\* the text f"{agent}:{action}:{target}" that md5 digests (line 39), held as
\* its three parts: no text of the model holds a colon, so the parts give the
\* joined text, and two different texts are taken to have different digests
signature(agent, action, target) == <<agent, action, target>>

\* check that counts the signature anywhere in the window
check_anywhere(detector_history, agent, action, target) ==
    LET sig == signature(agent, action, target)
        appended == Append(detector_history, sig)
        kept == IF Len(appended) > max_history THEN Tail(appended) ELSE appended
    IN  [history |-> kept,
         loop |-> IF Cardinality({i \in DOMAIN kept : kept[i] = sig}) >= threshold
                  THEN [agent |-> agent, action |-> action, target |-> target,
                        count |-> threshold]
                  ELSE NoLoop]

\* LoopDetector.check: the history it leaves and what it returns
check(detector_history, agent, action, target) ==
    LET sig == signature(agent, action, target)
        appended == Append(detector_history, sig)
        kept == IF Len(appended) > max_history THEN Tail(appended) ELSE appended
    IN  [history |-> kept,
         loop |-> IF Len(kept) >= threshold
                     /\ \A i \in (Len(kept) - threshold + 1)..Len(kept) :
                           kept[i] = sig
                  THEN [agent |-> agent, action |-> action, target |-> target,
                        count |-> threshold]
                  ELSE NoLoop]

\* data.get(key, "unknown") of lines 79-81; a key the dict lacks holds NoKey
data_get(data, key) == IF data[key] = NoKey THEN "unknown" ELSE data[key]

\* the standard dispatch (lines 89-100): one call per callback of the type, in
\* subscription order; what a callback raises is caught and printed, and an
\* async callback is made a task
dispatch(callbacks, event_type, data) ==
    IF event_type \notin DOMAIN callbacks THEN <<>>
    ELSE [i \in 1..Len(callbacks[event_type]) |->
            [callback |-> callbacks[event_type][i], type |-> event_type,
             data |-> data]]

\* EventBus.publish: the history it leaves, the publish calls made (its own
\* first) and the callbacks called, in the order of the calls
publish(detector_history, callbacks, event_type, data) ==
    LET checked == IF event_type = "agent_action"
                   THEN check(detector_history, data_get(data, "agent"),
                              data_get(data, "action"), data_get(data, "target"))
                   ELSE [history |-> detector_history, loop |-> NoLoop]
        looped == checked.loop # NoLoop
    IN  [history |-> checked.history,
         published |-> <<[type |-> event_type, data |-> data]>>
                       \o (IF looped
                           THEN <<[type |-> "loop_detected", data |-> checked.loop]>>
                           ELSE <<>>),
         dispatched |-> (IF looped
                         THEN dispatch(callbacks, "loop_detected", checked.loop)
                         ELSE <<>>)
                        \o dispatch(callbacks, event_type, data)]

\* EventBus.subscribe
subscribe(callbacks, event_type, callback) ==
    IF event_type \in DOMAIN callbacks
    THEN [callbacks EXCEPT ![event_type] = Append(@, callback)]
    ELSE [t \in DOMAIN callbacks \cup {event_type} |->
            IF t = event_type THEN <<callback>> ELSE callbacks[t]]

\* no publish call yet
NoPublish ==
    [event_type |-> "", data |-> <<>>, history |-> <<>>,
     published |-> <<>>, dispatched |-> <<>>]

\* EventBus.__new__ (lines 64-69): no subscribers, a new LoopDetector
BusAtConstruction ==
    /\ history = <<>>
    /\ subscribers = <<>>
    /\ last_publish = NoPublish
    /\ events = <<>>

-----------------------------------------------------------------------------
(* kernel/advisory_kernel.py *)

\* no execute_task call yet
NoTask ==
    [status |-> "none", error |-> "", task |-> "", executed |-> FALSE,
     outcome |-> "", governance_verdict |-> ""]

\* AdvisoryKernel(council): enforcing defaults to False (line 15)
KernelAtConstruction ==
    /\ enforcing = FALSE
    /\ last_task = NoTask

\* no second council was built
NoSecondCouncil ==
    [built |-> FALSE, constraints |-> <<>>, incidents |-> <<>>,
     gemini_spend_today |-> 0]

\* nothing was recorded yet
NoMutations == [constraints |-> {}, incidents |-> <<>>, spend |-> 0]

\* the process holds one council
OneCouncilAtConstruction ==
    /\ second_council = NoSecondCouncil
    /\ mutations = NoMutations

-----------------------------------------------------------------------------
(* core/gemini_agent.py: the Agent Caller *)

\* CircuitBreaker.__init__ defaults
failure_threshold == 5

recovery_timeout == 60

NewCircuitBreaker == [failures |-> 0, last_failure_time |-> 0]

\* record_failure that leaves the time of the last failure as it is
record_failure_count_only(cb, now) == [cb EXCEPT !.failures = @ + 1]

\* CircuitBreaker.record_failure at time now
record_failure(cb, now) ==
    [failures |-> cb.failures + 1, last_failure_time |-> now]

\* CircuitBreaker.record_success
record_success(cb) == [cb EXCEPT !.failures = 0]

\* CircuitBreaker.is_open at time now
is_open(cb, now) ==
    IF cb.failures >= failure_threshold
    THEN ~(now - cb.last_failure_time > recovery_timeout)
    ELSE FALSE

\* the model_chain argument the agent is built with
model_chain == <<"gemini-3-pro", "llama-3.3-70b-versatile">>

\* A text is the sequence of its pieces.  The system_context a caller passes:
\* a plain context, or a context that ends with the routing directive
\* of _run_agents (gemini_council.py line 135) for a model inside or outside
\* the chain.
SystemContexts ==
    {<<"review this">>,
     <<"review this", "[SYSTEM: Use Model", "gemini-3-pro">>,
     <<"review this", "[SYSTEM: Use Model", "mixtral-8x7b-32768">>}

\* a chain that keeps the configured models behind the forced one
active_chain_with_fallback(system_context) ==
    IF \E i \in 1..(Len(system_context) - 1) :
          system_context[i] = "[SYSTEM: Use Model"
    THEN LET i == CHOOSE k \in 1..(Len(system_context) - 1) :
                    /\ system_context[k] = "[SYSTEM: Use Model"
                    /\ \A j \in 1..(k - 1) : system_context[j] # "[SYSTEM: Use Model"
         IN  <<system_context[i + 1]>> \o model_chain
    ELSE model_chain

\* lines 72-77: the chain a query walks
active_chain(system_context) ==
    IF \E i \in 1..(Len(system_context) - 1) :
          system_context[i] = "[SYSTEM: Use Model"
    THEN LET i == CHOOSE k \in 1..(Len(system_context) - 1) :
                    /\ system_context[k] = "[SYSTEM: Use Model"
                    /\ \A j \in 1..(k - 1) : system_context[j] # "[SYSTEM: Use Model"
         IN  <<system_context[i + 1]>>
    ELSE model_chain

\* None, and what json.loads gives for the documents below
NoJson ==
    [type |-> "null", keys |-> {}, size |-> 0, verdict |-> "", confidence |-> 0,
     reasoning |-> <<>>, evidence |-> <<>>]

\* the JSON documents a model can answer with, and their values.  A
\* confidence is held in hundredths; an evidence entry is held as the pieces
\* of its text, a tag it starts with being its first piece.
JsonDocuments ==
    [doc \in {"{verdict: PASS, confidence: 0.9, evidence: [], reasoning: sound design}",
              "{verdict: PASS, confidence: 1.5, evidence: [], reasoning: sound design}",
              "{verdict: FAIL, confidence: -0.2, evidence: [], reasoning: sound design}",
              "{verdict: PASS, confidence: 1.0, evidence: [[SRC: a.py:3], [TBD: later]], reasoning: sound design}",
              "{verdict: PASS, confidence: 0.9, evidence: [[CMD: pytest], see the diff], reasoning: sound design}",
              "{verdict: WARN, confidence: 0.0, evidence: [[src: a.py:3]], reasoning: sound design}",
              "{answer: 42}", "{}", "[1]"} |->
        CASE doc = "{verdict: PASS, confidence: 0.9, evidence: [], reasoning: sound design}" ->
                [NoJson EXCEPT !.type = "dict",
                               !.keys = {"verdict", "confidence", "evidence", "reasoning"},
                               !.size = 4, !.verdict = "PASS", !.confidence = 90]
          [] doc = "{verdict: PASS, confidence: 1.5, evidence: [], reasoning: sound design}" ->
                [NoJson EXCEPT !.type = "dict",
                               !.keys = {"verdict", "confidence", "evidence", "reasoning"},
                               !.size = 4, !.verdict = "PASS", !.confidence = 150]
          [] doc = "{verdict: FAIL, confidence: -0.2, evidence: [], reasoning: sound design}" ->
                [NoJson EXCEPT !.type = "dict",
                               !.keys = {"verdict", "confidence", "evidence", "reasoning"},
                               !.size = 4, !.verdict = "FAIL", !.confidence = -20]
          [] doc = "{verdict: PASS, confidence: 1.0, evidence: [[SRC: a.py:3], [TBD: later]], reasoning: sound design}" ->
                [NoJson EXCEPT !.type = "dict",
                               !.keys = {"verdict", "confidence", "evidence", "reasoning"},
                               !.size = 4, !.verdict = "PASS", !.confidence = 100,
                               !.evidence = << <<"[SRC:", " a.py:3]">>,
                                               <<"[TBD:", " later]">> >>]
          [] doc = "{verdict: PASS, confidence: 0.9, evidence: [[CMD: pytest], see the diff], reasoning: sound design}" ->
                [NoJson EXCEPT !.type = "dict",
                               !.keys = {"verdict", "confidence", "evidence", "reasoning"},
                               !.size = 4, !.verdict = "PASS", !.confidence = 90,
                               !.evidence = << <<"[CMD:", " pytest]">>,
                                               <<"see the diff">> >>]
          [] doc = "{verdict: WARN, confidence: 0.0, evidence: [[src: a.py:3]], reasoning: sound design}" ->
                [NoJson EXCEPT !.type = "dict",
                               !.keys = {"verdict", "confidence", "evidence", "reasoning"},
                               !.size = 4, !.verdict = "WARN", !.confidence = 0,
                               !.evidence = << <<"[src:", " a.py:3]">> >>]
          [] doc = "{answer: 42}" ->
                [NoJson EXCEPT !.type = "dict", !.keys = {"answer"}, !.size = 1]
          [] doc = "{}" -> [NoJson EXCEPT !.type = "dict"]
          [] OTHER -> [NoJson EXCEPT !.type = "list", !.size = 1]]

\* _validate_structure: the markdown fences (the pieces "<fence json>" and
\* "<fence>") are removed, the rest is parsed;
\* a text that is not one JSON document gives None
_validate_structure(raw) ==
    LET cleaned == SelectSeq(raw, LAMBDA piece : piece \notin {"<fence json>", "<fence>"})
    IN  IF Len(cleaned) = 1 /\ cleaned[1] \in DOMAIN JsonDocuments
        THEN JsonDocuments[cleaned[1]]
        ELSE NoJson

\* Python truth of a parsed value (if parsed, line 101)
truthy(value) == value.type # "null" /\ value.size > 0

\* what one transport call can give: an exception, or a raw text
Replies ==
    {[raised |-> TRUE, raw |-> <<>>]}
    \cup {[raised |-> FALSE, raw |-> raw] : raw \in
            {<<"{verdict: PASS, confidence: 0.9, evidence: [], reasoning: sound design}">>,
             <<"<fence json>", "{verdict: PASS, confidence: 0.9, evidence: [], reasoning: sound design}", "<fence>">>,
             <<"I think the code is fine.">>,
             <<"{answer: 42}">>,
             <<"[1]">>}}

\* the dict of line 112
error_verdict(errors) ==
    [NoJson EXCEPT !.type = "dict", !.keys = {"verdict", "confidence", "reasoning"},
                   !.size = 3, !.verdict = "ERROR", !.confidence = 0,
                   !.reasoning = <<"All providers failed">> \o errors]

\* the loop of lines 79-112 over what is left of the chain.  breakers: the
\* agent's circuit_breakers; replies: what the transport of each model gives
\* if it is called; calls, skipped, errors: what the loop did so far.
RECURSIVE query_loop(_, _, _, _, _, _, _)
query_loop(chain, breakers, replies, now, calls, skipped, errors) ==
    IF chain = <<>>
    THEN [result |-> error_verdict(errors), breakers |-> breakers,
          calls |-> calls, skipped |-> skipped]
    ELSE LET model == Head(chain)
             cb == IF model \in DOMAIN breakers THEN breakers[model]
                   ELSE NewCircuitBreaker
             kept(b) == IF model \in DOMAIN breakers
                        THEN [breakers EXCEPT ![model] = b] ELSE breakers
             call == [model |-> model, reply |-> replies[model]]
             parsed == _validate_structure(replies[model].raw)
         IN  IF is_open(cb, now)
             THEN query_loop(Tail(chain), breakers, replies, now, calls,
                             Append(skipped, model), errors)
             ELSE IF replies[model].raised
             THEN query_loop(Tail(chain), kept(record_failure(cb, now)), replies,
                             now, Append(calls, call), skipped,
                             errors \o <<model, "transport error">>)
             ELSE IF truthy(parsed)
             THEN [result |-> parsed, breakers |-> kept(record_success(cb)),
                   calls |-> Append(calls, call), skipped |-> skipped]
             ELSE query_loop(Tail(chain), kept(record_failure(cb, now)), replies,
                             now, Append(calls, call), skipped,
                             errors \o <<model, "Invalid JSON">>)

\* GeminiAgent.query
query(system_context, breakers, replies, now) ==
    query_loop(active_chain(system_context), breakers, replies, now,
               <<>>, <<>>, <<>>)

NoQuery ==
    [op |-> "none", system_context |-> <<>>, calls |-> <<>>, skipped |-> <<>>,
     result |-> NoJson, streaks |-> <<>>]

\* history: a model the agent never called
NoStreak == [failed |-> 0, last |-> 0]

\* history: the failed attempts in a row an agent made on a model by direct
\* query calls, and the instant of the last one
streak_of(streaks, model) ==
    IF model \in DOMAIN streaks THEN streaks[model] ELSE NoStreak

\* the transport call failed: it raised, or line 101 found nothing parsed
call_failed(call) ==
    call.reply.raised \/ ~truthy(_validate_structure(call.reply.raw))

\* history: the streaks once a query made these calls at the instant now
streaks_after(streaks, calls, now) ==
    LET called == {calls[i].model : i \in DOMAIN calls}
        call_on(model) == calls[CHOOSE i \in DOMAIN calls : calls[i].model = model]
    IN  [model \in DOMAIN streaks \cup called |->
            IF model \notin called THEN streaks[model]
            ELSE IF call_failed(call_on(model))
            THEN [failed |-> streak_of(streaks, model).failed + 1, last |-> now]
            ELSE [streak_of(streaks, model) EXCEPT !.failed = 0]]

\* the agent as GeminiAgent.__init__ leaves it
AgentAtConstruction ==
    /\ circuit_breakers = [m \in Range(model_chain) |-> NewCircuitBreaker]
    /\ clock = 0
    /\ last_query = NoQuery

-----------------------------------------------------------------------------
(* The council: one GeminiCouncil and its deliberate calls *)

Init ==
    /\ agents \in Panels
    /\ agent_configs \in [Range(agents) -> AgentConfig]
    /\ failure_policy \in {"fail_open", "fail_closed"}
    /\ session_spawns = [s \in SessionIds |-> 0]
    /\ gemini_spend_today = 0
    /\ LedgerFileAtConstruction
    /\ StoreAtConstruction
    /\ BusAtConstruction
    /\ KernelAtConstruction
    /\ OneCouncilAtConstruction
    /\ pc = "idle"
    /\ session_id = ""
    /\ raw_results = <<>>
    /\ reduced = NoConsensus
    /\ mediator_calls = 0
    /\ outcome = NoOutcome
    /\ last_call = NoCall
    /\ AgentAtConstruction
    /\ LedgerAtConstruction

\* deliberate(code, context, language) up to the gather of _run_agents (lines
\* 52-136): a fresh session id (one the mediator has no count for), the
\* active constraints of the language (line 66, domain left at its default),
\* the default hierarchy for an empty council (the default registry knows no
\* agent, so none is created), one task per agent, each created with the
\* constraints fetched (line 136)
DeliberateCall(sid, language) ==
    /\ pc \in {"idle", "done"}
    /\ session_spawns[sid] = 0
    /\ pc' = "agents"
    /\ session_id' = sid
    /\ session_constraints' =
          [language |-> language,
           constraints |-> get_active_constraints(memory_store, language,
                                                  "general", today)]
    /\ agent_configs' = IF agents = <<>> /\ DOMAIN agent_configs = {}
                        THEN DefaultHierarchy ELSE agent_configs
    /\ raw_results' = <<>>
    /\ reduced' = NoConsensus
    /\ mediator_calls' = 0
    /\ outcome' = NoOutcome
    /\ UNCHANGED <<agents, failure_policy, session_spawns, ledger_vars,
                   last_call, agent_vars, groq_vars, memory_store, last_store,
                   bus_vars, kernel_vars, shared_vars>>

\* deliberate(code, context): the language is left at its default
Deliberate(sid) == DeliberateCall(sid, default_language)

\* one agent's task ends and its result is processed (lines 137-157)
AgentVote(review) ==
    /\ pc = "agents"
    /\ Len(raw_results) < Len(agents)
    /\ raw_results' = Append(raw_results,
          [key |-> ResultKey(agents[Len(raw_results) + 1], Len(raw_results)),
           verdict |-> review.verdict, confidence |-> review.confidence,
           type |-> "dict"])
    /\ UNCHANGED <<agent_configs, agents, failure_policy, session_spawns,
                   ledger_vars, pc, session_id, reduced, mediator_calls,
                   outcome, last_call, agent_vars, groq_vars, store_vars,
                   bus_vars, kernel_vars, shared_vars>>

\* the gather is complete: consensus, deadlock check, mediation, return.
\* The context argument is read only to build the deadlock data (line 83).
Conclude ==
    /\ pc = "agents"
    /\ Len(raw_results) = Len(agents)
    /\ reduced' = IF reducer_raises(raw_results) THEN NoConsensus
                   ELSE _calculate_consensus(raw_results, agent_configs)
    /\ \E context \in IF in_deadlock_band(reduced') THEN TaskContexts ELSE {"general"} :
         LET c == conclude(raw_results, agent_configs, failure_policy,
                           session_spawns[session_id], gemini_spend_today, context)
         IN  /\ mediator_calls' = c.calls
             /\ outcome' = c.outcome
             /\ session_spawns' = IF c.spawned
                                  THEN record_spawn(session_spawns, session_id)
                                  ELSE session_spawns
    /\ pc' = "done"
    /\ UNCHANGED <<agent_configs, agents, failure_policy, ledger_vars,
                   session_id, raw_results, last_call, agent_vars, groq_vars,
                   store_vars, bus_vars, kernel_vars, shared_vars>>

\* asyncio.timeout(60) expires while the agents run (lines 104-106)
CouncilTimeout ==
    /\ pc = "agents"
    /\ Len(raw_results) < Len(agents)
    /\ outcome' = _handle_failure(failure_policy, <<"Council Deliberation Timed Out">>)
    /\ raw_results' = <<>>
    /\ pc' = "done"
    /\ UNCHANGED <<agent_configs, agents, failure_policy, session_spawns,
                   ledger_vars, session_id, reduced, mediator_calls,
                   last_call, agent_vars, groq_vars, store_vars, bus_vars,
                   kernel_vars, shared_vars>>

Next ==
    \/ \E sid \in DeliberateSessionIds : Deliberate(sid)
    \/ \E review \in Reviews : AgentVote(review)
    \/ Conclude
    \/ CouncilTimeout

Spec == Init /\ [][Next]_vars

-----------------------------------------------------------------------------
(* The council with reviews whose weighted score falls next to the edges    *)
(* of the deadlock band                                                     *)

\* reviews at 0.39, 0.40, 0.60 and 0.61, and a FAIL
BandReviews ==
    {[verdict |-> "PASS", confidence |-> 39],
     [verdict |-> "PASS", confidence |-> 40],
     [verdict |-> "PASS", confidence |-> 60],
     [verdict |-> "PASS", confidence |-> 61],
     [verdict |-> "FAIL", confidence |-> 90]}

BandNext ==
    \/ \E sid \in DeliberateSessionIds : Deliberate(sid)
    \/ \E review \in BandReviews : AgentVote(review)
    \/ Conclude
    \/ CouncilTimeout

BandSpec == Init /\ [][BandNext]_vars

-----------------------------------------------------------------------------
(* The council with what its agents' queries give, before _run_agents       *)
(* processes it                                                             *)

\* what asyncio.gather(..., return_exceptions=True) holds for one agent: an
\* exception query raised, or the value query returned
AgentResults ==
    {[kind |-> "exception", value |-> NoJson]}
    \cup {[kind |-> "value", value |-> v] :
            v \in {JsonDocuments["{verdict: PASS, confidence: 0.9, evidence: [], reasoning: sound design}"],
                   JsonDocuments["{answer: 42}"],
                   JsonDocuments["[1]"],
                   error_verdict(<<"gemini-3-pro", "transport error">>)}}

\* item.startswith(prefix), for a prefix that is a tag
startswith(item, prefix) == item # <<>> /\ Head(item) = prefix

\* AgentVerdict.validate_evidence_format (lines 22-30): FALSE when it raises
validate_evidence_format(v) ==
    \A i \in DOMAIN v :
       \/ startswith(v[i], "[SRC:")
       \/ startswith(v[i], "[CMD:")
       \/ startswith(v[i], "[TBD:")

\* AgentVerdict(**result) (core/verdicts.py) accepts the dict: a verdict of
\* VerdictType, a confidence with 0.0 <= confidence <= 1.0 (Field(ge=0.0,
\* le=1.0), line 17; calibrate_confidence returns what it is given) and
\* evidence entries that pass validate_evidence_format; evidence and blocking
\* default, reasoning is supplied by line 148 when missing, and the reasoning
\* texts of the model have 10 characters or more
AgentVerdict_accepts(value) ==
    /\ {"verdict", "confidence"} \subseteq value.keys
    /\ value.verdict \in VerdictType
    /\ 0 <= value.confidence /\ value.confidence <= 100
    /\ validate_evidence_format(value.evidence)

\* the loop body of lines 141-157 for one key and its result
process_result(key, result) ==
    IF result.kind = "exception"
    THEN [key |-> key, verdict |-> "ERROR", confidence |-> 0, type |-> "dict",
          raw |-> result]
    ELSE IF result.value.type = "dict"
    THEN IF AgentVerdict_accepts(result.value)
         THEN [key |-> key, verdict |-> result.value.verdict,
               confidence |-> result.value.confidence, type |-> "dict",
               raw |-> result]
         ELSE [key |-> key, verdict |-> "ERROR", confidence |-> 0,
               type |-> "dict", raw |-> result]
    ELSE [key |-> key, verdict |-> result.value.verdict,
          confidence |-> result.value.confidence, type |-> result.value.type,
          raw |-> result]

\* one agent's query ends and _run_agents processes what it gave
AgentResult(result) ==
    /\ pc = "agents"
    /\ Len(raw_results) < Len(agents)
    /\ raw_results' = Append(raw_results,
          process_result(ResultKey(agents[Len(raw_results) + 1], Len(raw_results)),
                         result))
    /\ UNCHANGED <<agent_configs, agents, failure_policy, session_spawns,
                   ledger_vars, pc, session_id, reduced, mediator_calls,
                   outcome, last_call, agent_vars, groq_vars, store_vars,
                   bus_vars, kernel_vars, shared_vars>>

\* deliberate whose route_task call (line 55) raises: the call stands before
\* the try block of line 65, so the exception leaves deliberate as it is
DeliberateRoutingRaises(sid, complexity) ==
    LET route == route_task_call(TokenManager, complexity) IN
    /\ pc \in {"idle", "done"}
    /\ session_spawns[sid] = 0
    /\ route.kind = "raise"
    /\ pc' = "done"
    /\ session_id' = sid
    /\ raw_results' = <<>>
    /\ reduced' = NoConsensus
    /\ mediator_calls' = 0
    /\ outcome' = [NoOutcome EXCEPT !.kind = "raise",
                                    !.consensus.reason = route.error]
    /\ UNCHANGED <<agent_configs, agents, failure_policy, session_spawns,
                   ledger_vars, last_call, agent_vars, groq_vars, store_vars,
                   bus_vars, kernel_vars, shared_vars>>

RunAgentsNext ==
    \/ \E sid \in DeliberateSessionIds : Deliberate(sid)
    \/ \E sid \in DeliberateSessionIds, complexity \in ComplexityArguments :
         DeliberateRoutingRaises(sid, complexity)
    \/ \E result \in AgentResults : AgentResult(result)
    \/ Conclude
    \/ CouncilTimeout

RunAgentsSpec == Init /\ [][RunAgentsNext]_vars

-----------------------------------------------------------------------------
(* _run_agents on verdicts with confidences and evidence of every kind *)

\* a council whose agents were set on it, with no config and the default
\* policy of a development environment (lines 33 and 43-44)
SchemaInit ==
    /\ agents \in {p \in Panels : p # <<>>}
    /\ agent_configs = <<>>
    /\ failure_policy = "fail_open"
    /\ session_spawns = [s \in SessionIds |-> 0]
    /\ pc = "idle"
    /\ session_id = ""
    /\ raw_results = <<>>
    /\ reduced = NoConsensus
    /\ mediator_calls = 0
    /\ outcome = NoOutcome
    /\ last_call = NoCall
    /\ gemini_spend_today = 0
    /\ LedgerFileAtConstruction
    /\ StoreAtConstruction
    /\ BusAtConstruction
    /\ KernelAtConstruction
    /\ OneCouncilAtConstruction
    /\ AgentAtConstruction
    /\ LedgerAtConstruction

\* the verdicts the agents' queries return: confidences inside, on the edge
\* of and outside [0, 1], evidence with and without the tags
SchemaResults ==
    {[kind |-> "value", value |-> JsonDocuments[doc]] : doc \in
        {"{verdict: PASS, confidence: 0.9, evidence: [], reasoning: sound design}",
         "{verdict: PASS, confidence: 1.5, evidence: [], reasoning: sound design}",
         "{verdict: FAIL, confidence: -0.2, evidence: [], reasoning: sound design}",
         "{verdict: PASS, confidence: 1.0, evidence: [[SRC: a.py:3], [TBD: later]], reasoning: sound design}",
         "{verdict: PASS, confidence: 0.9, evidence: [[CMD: pytest], see the diff], reasoning: sound design}",
         "{verdict: WARN, confidence: 0.0, evidence: [[src: a.py:3]], reasoning: sound design}"}}

SchemaNext ==
    \/ \E sid \in DeliberateSessionIds : Deliberate(sid)
    \/ \E result \in SchemaResults : AgentResult(result)
    \/ Conclude

SchemaSpec == SchemaInit /\ [][SchemaNext]_vars

-----------------------------------------------------------------------------
(* The mediator on its own: one CivilizedMediator with its spawn controller *)
(* and TokenManager, called directly                                       *)

MediatorInit ==
    /\ agents = <<>>
    /\ agent_configs = <<>>
    /\ failure_policy = "fail_open"
    /\ session_spawns = [s \in SessionIds |-> 0]
    /\ gemini_spend_today \in SpendLevels
    /\ LedgerFileAtConstruction
    /\ StoreAtConstruction
    /\ BusAtConstruction
    /\ KernelAtConstruction
    /\ OneCouncilAtConstruction
    /\ pc = "idle"
    /\ session_id = ""
    /\ raw_results = <<>>
    /\ reduced = NoConsensus
    /\ mediator_calls = 0
    /\ outcome = NoOutcome
    /\ last_call = NoCall
    /\ AgentAtConstruction
    /\ LedgerAtConstruction

\* spawn_controller.record_spawn(session_id), called by a client
RecordSpawn(sid) ==
    /\ session_spawns[sid] < MaxSpawnCount
    /\ session_spawns' = record_spawn(session_spawns, sid)
    /\ last_call' = [NoCall EXCEPT !.op = "record_spawn", !.session = sid,
                                   !.count_before = session_spawns[sid],
                                   !.kind = "return"]
    /\ UNCHANGED <<council_vars, ledger_vars, agent_vars, groq_vars, store_vars, bus_vars,
                   kernel_vars, shared_vars>>

\* await mediator.attempt_resolution(deadlock_data, session_id)
AttemptResolution(sid, context) ==
    LET deadlock_data == [situation |-> "Council Consensus Weak",
                          conflicting_perspectives |-> <<>>,
                          task_context |-> context]
        m == attempt_resolution(deadlock_data, session_spawns[sid],
                                gemini_spend_today)
    IN  /\ session_spawns' = IF m.spawned THEN record_spawn(session_spawns, sid)
                             ELSE session_spawns
        /\ last_call' = [op |-> "attempt_resolution", session |-> sid,
                         task_context |-> context,
                         count_before |-> session_spawns[sid],
                         kind |-> m.kind, spawned |-> m.spawned,
                         ledger_call |-> m.ledger_call, result |-> m.result]
        /\ UNCHANGED <<council_vars, ledger_vars, agent_vars, groq_vars, store_vars, bus_vars,
                   kernel_vars, shared_vars>>

\* spawn_controller.can_spawn_mediator(session_id, token_manager), called from
\* synchronous code (no event loop running)
CanSpawnMediator(sid) ==
    LET r == can_spawn_mediator(session_spawns[sid], gemini_spend_today, FALSE)
    IN  /\ last_call' = [NoCall EXCEPT
                            !.op = "can_spawn_mediator", !.session = sid,
                            !.count_before = session_spawns[sid],
                            !.kind = r.kind, !.ledger_call = r.ledger_call,
                            !.result = [NoMediation EXCEPT
                                          !.action = IF r.ok THEN "ALLOWED" ELSE "DENIED",
                                          !.reason = r.reason]]
        /\ UNCHANGED <<council_vars, session_spawns, ledger_vars,
                       agent_vars, groq_vars, store_vars, bus_vars,
                       kernel_vars, shared_vars>>

MediatorNext ==
    \/ \E sid \in SessionIds : RecordSpawn(sid)
    \/ \E sid \in SessionIds, context \in TaskContexts : AttemptResolution(sid, context)
    \/ \E sid \in SessionIds : CanSpawnMediator(sid)

MediatorSpec == MediatorInit /\ [][MediatorNext]_vars

-----------------------------------------------------------------------------
(* One GeminiAgent, queried directly and through the router's directive *)

\* everything outside the agent, its clock and the Ledger, as built
CouncilIdle ==
    /\ agents = <<>>
    /\ agent_configs = <<>>
    /\ failure_policy = "fail_open"
    /\ session_spawns = [s \in SessionIds |-> 0]
    /\ pc = "idle"
    /\ session_id = ""
    /\ raw_results = <<>>
    /\ reduced = NoConsensus
    /\ mediator_calls = 0
    /\ outcome = NoOutcome
    /\ last_call = NoCall

AgentInit ==
    /\ CouncilIdle
    /\ gemini_spend_today = 0
    /\ LedgerFileAtConstruction
    /\ StoreAtConstruction
    /\ BusAtConstruction
    /\ KernelAtConstruction
    /\ OneCouncilAtConstruction
    /\ AgentAtConstruction
    /\ LedgerAtConstruction

\* the seconds that pass between two calls
ClockSteps == {recovery_timeout, recovery_timeout + 1}

\* await agent.query(prompt, system_context); replies: what the transport of
\* each model of the active chain gives if it is called
Query(system_context, replies) ==
    LET q == query(system_context, circuit_breakers, replies, clock) IN
    /\ \A m \in DOMAIN circuit_breakers : circuit_breakers[m].failures < MaxFailures
    /\ \A m \in DOMAIN last_query.streaks : last_query.streaks[m].failed < MaxFailures
    /\ circuit_breakers' = q.breakers
    /\ last_query' = [op |-> "query", system_context |-> system_context,
                      calls |-> q.calls, skipped |-> q.skipped,
                      result |-> q.result,
                      streaks |-> streaks_after(last_query.streaks, q.calls, clock)]
    /\ UNCHANGED <<council_vars, session_spawns, ledger_vars, last_call,
                   clock, groq_vars, store_vars, bus_vars,
                   kernel_vars, shared_vars>>

\* the context _run_agents builds from the routing decision (line 135)
routed_context(context, route) ==
    <<context, "[SYSTEM: Use Model", route.model, "via", route.primary_provider>>

\* deliberate's route_task (line 55) followed by the query of one agent with
\* the routed context (lines 135-136)
RoutedQuery(complexity, replies) ==
    LET route == route_task(TokenManager, complexity)
        q == query(routed_context("review this", route), circuit_breakers,
                   replies, clock)
    IN  /\ \A m \in DOMAIN circuit_breakers : circuit_breakers[m].failures < MaxFailures
        /\ last_route' = [NoRoute EXCEPT !.op = "route_task",
                                         !.complexity = complexity,
                                         !.decision = route]
        /\ circuit_breakers' = q.breakers
        /\ last_query' = [op |-> "routed_query",
                          system_context |-> routed_context("review this", route),
                          calls |-> q.calls, skipped |-> q.skipped,
                          result |-> q.result,
                          streaks |-> last_query.streaks]
        /\ UNCHANGED <<council_vars, session_spawns, ledger_vars,
                       last_call, clock, groq_models, current_model_index,
                       store_vars, bus_vars, kernel_vars, shared_vars>>

\* time passes
Tick(seconds) ==
    /\ clock + seconds <= MaxClock
    /\ clock' = clock + seconds
    /\ UNCHANGED <<council_vars, session_spawns, ledger_vars, last_call,
                   circuit_breakers, last_query, groq_vars, store_vars,
                   bus_vars, kernel_vars, shared_vars>>

AgentNext ==
    \/ \E system_context \in SystemContexts :
         \E replies \in [Range(active_chain(system_context)) -> Replies] :
            Query(system_context, replies)
    \/ \E seconds \in ClockSteps : Tick(seconds)

AgentSpec == AgentInit /\ [][AgentNext]_vars

-----------------------------------------------------------------------------
(* Routed queries: what deliberate does with the Ledger and one agent, for  *)
(* a TokenManager that recorded usage before                                *)

\* requests the flagship Groq model can have recorded in the running minute
RequestLevels == {0, rate_limit_rpm}

RoutedInit ==
    /\ CouncilIdle
    /\ gemini_spend_today \in SpendLevels
    /\ LedgerFileAtConstruction
    /\ StoreAtConstruction
    /\ BusAtConstruction
    /\ KernelAtConstruction
    /\ OneCouncilAtConstruction
    /\ AgentAtConstruction
    /\ \E requests \in RequestLevels :
          groq_models = [NewGroqManager.models EXCEPT
                            ![1].requests_this_minute = requests,
                            ![1].tokens_this_minute = requests * 1000]
    /\ current_model_index = 0
    /\ last_route = NoRoute

\* what the transport of a model of the chain other than the routed one
\* gives if it is called: an exception or a verdict
FallbackReplies ==
    {reply \in Replies :
        \/ reply.raised
        \/ reply.raw = <<"{verdict: PASS, confidence: 0.9, evidence: [], reasoning: sound design}">>}

RoutedNext ==
    \E complexity \in Complexities :
       LET routed == route_task(TokenManager, complexity).model IN
       \E reply \in Replies :
          \E others \in [Range(model_chain) \ {routed} -> FallbackReplies] :
             RoutedQuery(complexity,
                         [m \in Range(model_chain) \cup {routed} |->
                             IF m = routed THEN reply ELSE others[m]])

RoutedSpec == RoutedInit /\ [][RoutedNext]_vars

-----------------------------------------------------------------------------
(* The Ledger and the router: one TokenManager with its AdaptiveRouter *)

LedgerInit ==
    /\ CouncilIdle
    /\ gemini_spend_today = 0
    /\ LedgerFileAtConstruction
    /\ StoreAtConstruction
    /\ BusAtConstruction
    /\ KernelAtConstruction
    /\ OneCouncilAtConstruction
    /\ AgentAtConstruction
    /\ LedgerAtConstruction

\* await router.route_task(task_description, complexity)
RouteTask(complexity) ==
    /\ last_route' = [NoRoute EXCEPT !.op = "route_task",
                                     !.complexity = complexity,
                                     !.decision = route_task(TokenManager, complexity)]
    /\ UNCHANGED <<council_vars, session_spawns, ledger_vars, last_call,
                   agent_vars, groq_models, current_model_index, store_vars,
                   bus_vars, kernel_vars, shared_vars>>

\* await token_manager.can_make_request(provider, estimated_tokens,
\* complexity, task_type)
CanMakeRequest(provider, estimated_tokens, complexity, task_type) ==
    /\ last_route' = [NoRoute EXCEPT
                        !.op = "can_make_request", !.provider = provider,
                        !.complexity = complexity, !.task_type = task_type,
                        !.estimated_tokens = estimated_tokens,
                        !.answer = can_make_request(TokenManager, provider,
                                       estimated_tokens, complexity, task_type)]
    /\ UNCHANGED <<council_vars, session_spawns, ledger_vars, last_call,
                   agent_vars, groq_models, current_model_index, store_vars,
                   bus_vars, kernel_vars, shared_vars>>

\* token_manager.record_usage(provider, tokens, model, status_code)
RecordUsage(provider, tokens, model, status_code) ==
    LET after == record_usage(TokenManager, provider, tokens, model, status_code)
    IN  /\ \A i \in DOMAIN after.groq_manager.models :
              /\ after.groq_manager.models[i].requests_this_minute <= MaxRequests
              /\ after.groq_manager.models[i].tokens_this_minute <= MaxTokensThisMinute
        /\ after.gemini_spend_today <= MaxSpend
        /\ gemini_spend_today' = after.gemini_spend_today
        /\ cost_today' = cost_today + (after.gemini_spend_today - gemini_spend_today)
        /\ state_file' = IF provider = "google" THEN _save_state(after, today)
                         ELSE state_file
        /\ today' = today
        /\ groq_models' = after.groq_manager.models
        /\ current_model_index' = after.groq_manager.current_model_index
        /\ last_route' = [NoRoute EXCEPT !.op = "record_usage",
                                         !.provider = provider,
                                         !.model = model,
                                         !.status_code = status_code,
                                         !.index_before = current_model_index]
        /\ UNCHANGED <<council_vars, session_spawns, last_call, agent_vars, store_vars, bus_vars,
                   kernel_vars, shared_vars>>

\* a minute goes by with no call on the Ledger: no reset task runs
\* (_start_reset_task schedules none)
MinutePasses ==
    /\ clock + 60 <= MaxClock
    /\ clock' = clock + 60
    /\ last_route' = [NoRoute EXCEPT !.op = "minute_passed"]
    /\ UNCHANGED <<council_vars, session_spawns, ledger_vars, last_call,
                   circuit_breakers, last_query, groq_models, current_model_index,
                   store_vars, bus_vars, kernel_vars, shared_vars>>

LedgerNext ==
    \/ \E complexity \in Complexities : RouteTask(complexity)
    \/ \E provider \in Providers, complexity \in {default_complexity, 4},
          task_type \in TaskTypes :
         CanMakeRequest(provider, default_estimated_tokens, complexity, task_type)
    \/ \E usage \in Usages :
         RecordUsage(usage.provider, usage.tokens, usage.model, usage.status_code)
    \/ MinutePasses

LedgerSpec == LedgerInit /\ [][LedgerNext]_vars

-----------------------------------------------------------------------------
(* The Ledger's budget: one state file, TokenManagers built on it one after *)
(* the other, and the calendar                                              *)

\* the process ends and TokenManager(config_path) is built again on the
\* same file (lines 21-29)
Restart ==
    /\ gemini_spend_today' = _load_state(state_file, today)
    /\ groq_models' = _start_reset_task(NewGroqManager).models
    /\ current_model_index' = _start_reset_task(NewGroqManager).current_model_index
    /\ last_route' = [NoRoute EXCEPT !.op = "restart"]
    /\ UNCHANGED <<council_vars, session_spawns, last_call, agent_vars,
                   state_file, today, cost_today, store_vars, bus_vars,
                   kernel_vars, shared_vars>>

\* midnight passes: datetime.now().date() is the next day; no code of the
\* TokenManager runs
DayPasses ==
    /\ today < MaxDay
    /\ today' = today + 1
    /\ cost_today' = 0
    /\ last_route' = [NoRoute EXCEPT !.op = "day_passed"]
    /\ UNCHANGED <<council_vars, session_spawns, last_call, agent_vars,
                   gemini_spend_today, state_file, groq_models,
                   current_model_index, store_vars, bus_vars,
                   kernel_vars, shared_vars>>

BudgetNext ==
    \/ \E usage \in BudgetUsages :
         RecordUsage(usage.provider, usage.tokens, usage.model, usage.status_code)
    \/ \E estimated_tokens \in EstimatedTokens :
         CanMakeRequest("google", estimated_tokens, default_complexity, "general")
    \/ Restart
    \/ DayPasses

BudgetSpec == LedgerInit /\ [][BudgetNext]_vars

-----------------------------------------------------------------------------
(* The Constraint Store: one storage directory, MemoryStores built on it    *)
(* one after the other, and the calendar                                    *)

\* the days on which the store is called: the first two, the day a
\* constraint added on the first expires, and a later one
CallDays == {0, 1, thirty_days, MaxStoreDay}

\* the constraints add_constraint is called with on the day now: an
\* EXPERIMENTAL one built on the first day, one with an explicit expiry on
\* the next day, a VALIDATED one for Python security, and one with a pattern
\* of two characters, these three built on the day of the call
ConstraintArguments(now) ==
    {NewConstraint("C-1", "no eval", "eval(user_input)", 0),
     [NewConstraint("C-2", "no eval", "eval(user_input)", now)
         EXCEPT !.expires_at = now + 1],
     [NewConstraint("C-3", "no shell", "os.system", now)
         EXCEPT !.tier = "validated",
                !.scope = [language |-> "python", domain |-> "security"]],
     NewConstraint("C-4", "too broad", "ab", now)}

\* the incidents record_incident is called with
IncidentArguments ==
    {[verdict_id |-> "s1", decision |-> "PASS", outcome |-> "SUCCESS",
      details |-> [error |-> NoKey, failed_line |-> NoKey], timestamp |-> ""]}

\* the (language, domain) queries of get_active_constraints
Languages == {"python", "go"}

Domains == {"general", "security"}

\* memory_store.add_constraint(constraint)
AddConstraint(constraint) ==
    /\ Len(memory_store.constraints) < MaxConstraints
    /\ memory_store' = add_constraint(memory_store, constraint, today)
    /\ last_store' = [NoStoreCall EXCEPT
                        !.op = "add_constraint",
                        !.argument = <<constraint>>,
                        !.result = <<memory_store'.constraints[
                                        Len(memory_store'.constraints)]>>]
    /\ UNCHANGED <<council_vars, session_spawns, last_call, agent_vars,
                   groq_vars, ledger_vars, session_constraints, bus_vars,
                   kernel_vars, shared_vars>>

\* memory_store.get_active_constraints(language, domain)
GetActiveConstraints(language, domain) ==
    /\ last_store' = [NoStoreCall EXCEPT
                        !.op = "get_active_constraints",
                        !.language = language, !.domain = domain,
                        !.result = get_active_constraints(memory_store,
                                       language, domain, today)]
    /\ UNCHANGED <<council_vars, session_spawns, last_call, agent_vars,
                   groq_vars, ledger_vars, memory_store, session_constraints,
                   bus_vars, kernel_vars, shared_vars>>

\* memory_store.record_incident(incident)
RecordIncident(incident) ==
    /\ Len(memory_store.incidents) < MaxIncidents
    /\ memory_store' = record_incident(memory_store, incident, today)
    /\ last_store' = [NoStoreCall EXCEPT !.op = "record_incident"]
    /\ UNCHANGED <<council_vars, session_spawns, last_call, agent_vars,
                   groq_vars, ledger_vars, session_constraints, bus_vars,
                   kernel_vars, shared_vars>>

\* the process ends and MemoryStore(storage_dir) is built again on the same
\* directory (lines 13-21)
Reload ==
    /\ memory_store' = NewMemoryStore(memory_store.constraints_file,
                                      memory_store.incidents_file)
    /\ last_store' = [NoStoreCall EXCEPT !.op = "reload"]
    /\ UNCHANGED <<council_vars, session_spawns, last_call, agent_vars,
                   groq_vars, ledger_vars, session_constraints, bus_vars,
                   kernel_vars, shared_vars>>

\* time passes until the next day on which the store is called
DaysPass(day) ==
    /\ day > today
    /\ today' = day
    /\ cost_today' = 0
    /\ UNCHANGED <<council_vars, session_spawns, last_call, agent_vars,
                   groq_vars, gemini_spend_today, state_file, store_vars,
                   bus_vars, kernel_vars, shared_vars>>

StoreNext ==
    \/ \E constraint \in ConstraintArguments(today) : AddConstraint(constraint)
    \/ \E language \in Languages, domain \in Domains :
         GetActiveConstraints(language, domain)
    \/ \E incident \in IncidentArguments : RecordIncident(incident)
    \/ Reload
    \/ \E day \in CallDays : DaysPass(day)

StoreSpec == LedgerInit /\ [][StoreNext]_vars

-----------------------------------------------------------------------------
(* The feedback loop on the store *)

\* the deliberation results record_outcome is called with
VerdictArguments ==
    {[session_id |-> "s1", decision |-> d] : d \in {"PASS", "WARN", "FAIL"}}

Outcomes == {"SUCCESS", "FAILURE", "INCIDENT"}

\* details: a security failure with its line, a failure with an error text
\* only, and one with a two-character line only
DetailsArguments ==
    {[error |-> "Security Breach: eval used", failed_line |-> "eval(user_input)"],
     [error |-> "timeout in worker", failed_line |-> NoKey],
     [error |-> NoKey, failed_line |-> "ab"]}

\* the id uuid4 gives the constraint learned when the store holds n
LearnedId(n) == <<"C-1a2b3c4d", "C-5e6f7a8b", "C-9c0d1e2f", "C-3a4b5c6d">>[n + 1]

\* await feedback_loop.record_outcome(verdict, outcome, details)
RecordOutcome(verdict, reported_outcome, details) ==
    /\ Len(memory_store.incidents) < MaxIncidents
    /\ Len(memory_store.constraints) < MaxConstraints
    /\ memory_store' = record_outcome(memory_store, verdict, reported_outcome,
                           details, today,
                           LearnedId(Len(memory_store.constraints)))
    /\ last_store' = [NoStoreCall EXCEPT
                        !.op = "record_outcome",
                        !.argument = <<[verdict |-> verdict,
                                        outcome |-> reported_outcome,
                                        details |-> details,
                                        store |-> memory_store]>>]
    /\ UNCHANGED <<council_vars, session_spawns, last_call, agent_vars,
                   groq_vars, ledger_vars, session_constraints, bus_vars,
                   kernel_vars, shared_vars>>

FeedbackNext ==
    \E verdict \in VerdictArguments, reported_outcome \in Outcomes,
          details \in DetailsArguments :
         RecordOutcome(verdict, reported_outcome, details)

FeedbackSpec == LedgerInit /\ [][FeedbackNext]_vars

-----------------------------------------------------------------------------
(* The learning loop: deliberate, report the outcome, deliberate again      *)
(* (tests/test_phase3.py, test_institutional_learning_loop)                 *)

\* the council of the test: agents set on the council, no config, a store
\* built on an empty directory
LearningInit ==
    /\ agents \in {<< <<"Lead">> >>, << <<"Lead">>, <<"Val">> >>}
    /\ agent_configs = <<>>
    /\ failure_policy = "fail_open"
    /\ session_spawns = [s \in SessionIds |-> 0]
    /\ pc = "idle"
    /\ session_id = ""
    /\ raw_results = <<>>
    /\ reduced = NoConsensus
    /\ mediator_calls = 0
    /\ outcome = NoOutcome
    /\ last_call = NoCall
    /\ gemini_spend_today = 0
    /\ LedgerFileAtConstruction
    /\ StoreAtConstruction
    /\ BusAtConstruction
    /\ KernelAtConstruction
    /\ OneCouncilAtConstruction
    /\ AgentAtConstruction
    /\ LedgerAtConstruction

\* what PassiveAgent.query and a dissenting agent return
LearningReviews ==
    {[verdict |-> "PASS", confidence |-> 90],
     [verdict |-> "FAIL", confidence |-> 90]}

\* the dict deliberate returned (lines 96-102), as record_outcome reads it:
\* the fallback of _handle_failure has no session_id, and
\* verdict.get("session_id", str(uuid.uuid4())) draws one
returned_verdict(returned, sid) ==
    [session_id |-> IF returned.fallback THEN "u1" ELSE sid,
     decision |-> returned.consensus.decision]

\* await council.record_outcome(verdict, outcome, details) with the verdict
\* the last deliberate call returned (lines 111-113)
ReportOutcome(reported_outcome, details) ==
    /\ Len(memory_store.incidents) < MaxReports
    /\ pc = "done"
    /\ outcome.kind = "return"
    /\ RecordOutcome(returned_verdict(outcome, session_id), reported_outcome,
                     details)

LearningNext ==
    \/ \E sid \in DeliberateSessionIds, language \in Languages :
         DeliberateCall(sid, language)
    \/ \E review \in LearningReviews : AgentVote(review)
    \/ Conclude
    \/ \E reported_outcome \in Outcomes, details \in DetailsArguments :
         ReportOutcome(reported_outcome, details)
    \/ \E day \in CallDays : DaysPass(day)

LearningSpec == LearningInit /\ [][LearningNext]_vars

-----------------------------------------------------------------------------
(* The bus: subscriptions and publish calls *)

\* the event types subscribed to; votes are published to no subscriber
SubscribedTypes == {"agent_action", "loop_detected"}

\* callbacks: a plain one and one that raises
Callbacks == {"handle", "handle_raises"}

\* the data of the publish calls: the router's action of deliberate
\* (gemini_council.py, lines 56-61), an action with every key left out, and
\* one that spells the defaults
EventData ==
    {[session_id |-> "s1", agent |-> "Router", action |-> "route_task",
      target |-> "groq/llama-3.3-70b-versatile"],
     [session_id |-> "s1", agent |-> NoKey, action |-> NoKey, target |-> NoKey],
     [session_id |-> "s1", agent |-> "unknown", action |-> "unknown",
      target |-> "unknown"]}

\* the data of the votes published (gemini_council.py, line 152)
VoteData ==
    {[session_id |-> "s1", agent |-> "Lead", action |-> NoKey, target |-> NoKey]}

RECURSIVE callbacks_subscribed(_, _)
\* the number of callbacks subscribed for the event types given
callbacks_subscribed(callbacks, types) ==
    IF types = {} THEN 0
    ELSE LET t == CHOOSE x \in types : TRUE
         IN  Len(callbacks[t]) + callbacks_subscribed(callbacks, types \ {t})

\* event_bus.subscribe(event_type, callback)
Subscribe(event_type, callback) ==
    /\ callbacks_subscribed(subscribers, DOMAIN subscribers) < MaxCallbacks
    /\ subscribers' = subscribe(subscribers, event_type, callback)
    /\ last_publish' = NoPublish
    /\ events' = <<>>
    /\ UNCHANGED <<council_vars, session_spawns, last_call, agent_vars,
                   groq_vars, ledger_vars, store_vars, history,
                   kernel_vars, shared_vars>>

\* event_bus.publish(event_type, data)
Publish(event_type, data) ==
    LET p == publish(history, subscribers, event_type, data)
    IN  /\ history' = p.history
        /\ last_publish' = [event_type |-> event_type, data |-> data,
                            history |-> history,
                            published |-> p.published,
                            dispatched |-> p.dispatched]
        /\ events' = p.published
        /\ UNCHANGED <<council_vars, session_spawns, last_call, agent_vars,
                       groq_vars, ledger_vars, store_vars, subscribers,
                       kernel_vars, shared_vars>>

BusNext ==
    \/ \E event_type \in SubscribedTypes, callback \in Callbacks :
         Subscribe(event_type, callback)
    \/ \E data \in EventData : Publish("agent_action", data)
    \/ \E data \in VoteData : Publish("agent_vote", data)

BusSpec == LedgerInit /\ [][BusNext]_vars

-----------------------------------------------------------------------------
(* The kernel: execute_task on a council *)

\* the tasks execute_task is called with
Tasks == {"deploy the service", "fail fast on bad input", "edit main.py"}

\* "fail" in task.lower() or "error" in task.lower() (line 51)
simulated_failure(task) == task = "fail fast on bad input"

\* "python" in task.lower() or ".py" in task.lower() (line 59)
implies_python(task) == task = "edit main.py"

\* execute_task from the end of council.deliberate (line 32) on, in advisory
\* mode whatever the flag
execute_task_advisory(is_enforcing, returned, sid, task, lint_passed, store, now, new_id) ==
    IF returned.kind = "raise"
    THEN [store |-> store,
          result |-> [NoTask EXCEPT !.status = "raised", !.error = "Exception",
                                    !.task = task]]
    ELSE LET linted == implies_python(task) /\ ~lint_passed
             result == IF simulated_failure(task) \/ linted
                       THEN "FAILURE" ELSE "SUCCESS"
             details == [error |-> IF linted THEN "Linter Failed"
                                   ELSE IF simulated_failure(task)
                                   THEN "Simulated failure based on task keywords"
                                   ELSE NoKey,
                         failed_line |-> IF simulated_failure(task) THEN task
                                         ELSE NoKey]
         IN  [store |-> record_outcome(store, returned_verdict(returned, sid),
                                       result, details, now, new_id),
              result |-> [NoTask EXCEPT
                            !.status = "executed", !.task = task,
                            !.executed = TRUE, !.outcome = result,
                            !.governance_verdict = returned.consensus.decision]]

\* AdvisoryKernel.execute_task from the end of council.deliberate (line 32)
\* on: returned is what deliberate returned or raised, lint_passed what
\* _lint_workspace finds in the working directory.  The store it leaves and
\* how the call ends: an exception of deliberate goes through, a FAIL in
\* enforcing mode is recorded as BLOCKED and raised as GovernanceError, and
\* otherwise the task is executed and its outcome recorded.
execute_task(is_enforcing, returned, sid, task, lint_passed, store, now, new_id) ==
    IF returned.kind = "raise"
    THEN [store |-> store,
          result |-> [NoTask EXCEPT !.status = "raised", !.error = "Exception",
                                    !.task = task]]
    ELSE IF returned.consensus.decision = "FAIL" /\ is_enforcing
    THEN [store |-> record_outcome(store, returned_verdict(returned, sid),
                                   "BLOCKED",
                                   [error |-> NoKey, failed_line |-> NoKey],
                                   now, new_id),
          result |-> [NoTask EXCEPT !.status = "raised",
                                    !.error = "GovernanceError", !.task = task]]
    ELSE execute_task_advisory(is_enforcing, returned, sid, task, lint_passed,
                               store, now, new_id)

\* a kernel in either mode on a council whose agents were set on it
KernelInit ==
    /\ agents \in {<< <<"Lead">> >>, << <<"Lead">>, <<"Val">> >>}
    /\ agent_configs = <<>>
    /\ failure_policy \in {"fail_open", "fail_closed"}
    /\ session_spawns = [s \in SessionIds |-> 0]
    /\ pc = "idle"
    /\ session_id = ""
    /\ raw_results = <<>>
    /\ reduced = NoConsensus
    /\ mediator_calls = 0
    /\ outcome = NoOutcome
    /\ last_call = NoCall
    /\ gemini_spend_today = 0
    /\ LedgerFileAtConstruction
    /\ StoreAtConstruction
    /\ BusAtConstruction
    /\ enforcing \in BOOLEAN
    /\ last_task = NoTask
    /\ OneCouncilAtConstruction
    /\ AgentAtConstruction
    /\ LedgerAtConstruction

\* what the agents of the kernel's council answer
KernelReviews ==
    {[verdict |-> "PASS", confidence |-> 90],
     [verdict |-> "PASS", confidence |-> 50],
     [verdict |-> "FAIL", confidence |-> 90]}

\* execute_task(task) after its deliberate call ended (lines 33-75)
ExecuteTask(task, lint_passed) ==
    /\ pc = "done"
    /\ Len(memory_store.incidents) < MaxIncidents
    /\ Len(memory_store.constraints) < MaxConstraints
    /\ LET e == execute_task(enforcing, outcome, session_id, task, lint_passed,
                             memory_store, today,
                             LearnedId(Len(memory_store.constraints)))
       IN  /\ memory_store' = e.store
           /\ last_task' = e.result
    /\ pc' = "idle"
    /\ UNCHANGED <<agent_configs, agents, failure_policy, session_id,
                   raw_results, reduced, mediator_calls, outcome,
                   session_spawns, last_call, agent_vars, groq_vars,
                   ledger_vars, last_store, session_constraints, bus_vars,
                   enforcing, shared_vars>>

KernelNext ==
    \/ \E sid \in DeliberateSessionIds : Deliberate(sid)
    \/ \E review \in KernelReviews : AgentVote(review)
    \/ Conclude
    \/ CouncilTimeout
    \/ \E task \in Tasks, lint_passed \in BOOLEAN : ExecuteTask(task, lint_passed)

KernelSpec == KernelInit /\ [][KernelNext]_vars

-----------------------------------------------------------------------------
(* Two councils of one process.  GeminiCouncil() builds MemoryStore() and   *)
(* TokenManager() on their default paths (gemini_council.py lines 28, 36),  *)
(* so the two stores share constraints.json and incidents.json and the two  *)
(* ledgers share token_config.json.  No call of the store, the feedback     *)
(* loop or record_usage awaits, so each runs whole between two steps of     *)
(* the other council.                                                       *)

Councils == {1, 2}

\* the MemoryStore a council holds: its own lists over the shared files
store_of(council) ==
    IF council = 1 THEN memory_store
    ELSE [memory_store EXCEPT !.constraints = second_council.constraints,
                              !.incidents = second_council.incidents]

\* the TokenManager a council holds, as far as Gemini usages read it
ledger_of(council) ==
    IF council = 1 THEN TokenManager
    ELSE TokenManagerAt(second_council.gemini_spend_today)

\* the second GeminiCouncil() is built after the first on the same empty
\* directory
TwoCouncilsAtConstruction ==
    /\ second_council =
            [built |-> TRUE,
             constraints |-> NewMemoryStore(memory_store.constraints_file,
                                 memory_store.incidents_file).constraints,
             incidents |-> NewMemoryStore(memory_store.constraints_file,
                               memory_store.incidents_file).incidents,
             gemini_spend_today |-> _load_state(state_file, today)]
    /\ mutations = NoMutations

SharedInit ==
    /\ CouncilIdle
    /\ gemini_spend_today = 0
    /\ LedgerFileAtConstruction
    /\ StoreAtConstruction
    /\ BusAtConstruction
    /\ KernelAtConstruction
    /\ TwoCouncilsAtConstruction
    /\ AgentAtConstruction
    /\ LedgerAtConstruction

\* the verdict a council reports on: one of its own sessions
SharedVerdicts(council) ==
    {[session_id |-> IF council = 1 THEN "s1" ELSE "s2", decision |-> d] :
        d \in {"PASS", "FAIL"}}

\* Gemini usages at the Pro and the Flash rate, worth 0.5 and 0.25 dollars
SharedUsages ==
    {[provider |-> "google", tokens |-> 100000, model |-> "gemini-3-pro",
      status_code |-> 200],
     [provider |-> "google", tokens |-> 500000, model |-> "gemini-3-flash",
      status_code |-> 200]}

\* the ids of a list of constraints
ids_of(constraints) == {constraints[i].id : i \in DOMAIN constraints}

\* await council.record_outcome(verdict, outcome, details) on one of the
\* two councils
RecordOutcomeBy(council, verdict, reported_outcome, details) ==
    LET before == store_of(council)
        after == record_outcome(before, verdict, reported_outcome, details,
                     today, LearnedId(Cardinality(mutations.constraints)))
    IN  /\ Len(mutations.incidents) < MaxIncidents
        /\ Cardinality(mutations.constraints) < MaxConstraints
        /\ memory_store' =
                IF council = 1 THEN after
                ELSE [memory_store EXCEPT
                        !.constraints_file = after.constraints_file,
                        !.incidents_file = after.incidents_file]
        /\ second_council' =
                IF council = 1 THEN second_council
                ELSE [second_council EXCEPT
                        !.constraints = after.constraints,
                        !.incidents = after.incidents]
        /\ mutations' =
                [mutations EXCEPT
                    !.incidents = Append(@, after.incidents[Len(after.incidents)]),
                    !.constraints = @ \cup (ids_of(after.constraints)
                                            \ ids_of(before.constraints))]
        /\ last_store' = [NoStoreCall EXCEPT
                            !.op = "record_outcome",
                            !.argument = <<[verdict |-> verdict,
                                            outcome |-> reported_outcome,
                                            details |-> details,
                                            store |-> before]>>]
        /\ UNCHANGED <<council_vars, session_spawns, last_call, agent_vars,
                       groq_vars, ledger_vars, session_constraints, bus_vars,
                       kernel_vars>>

\* token_manager.record_usage("google", tokens, model) on the ledger of one
\* of the two councils
RecordUsageBy(council, usage) ==
    LET before == ledger_of(council)
        after == record_usage(before, usage.provider, usage.tokens,
                              usage.model, usage.status_code)
        cost == after.gemini_spend_today - before.gemini_spend_today
    IN  /\ mutations.spend + cost <= MaxSpend \div 10
        /\ gemini_spend_today' =
                IF council = 1 THEN after.gemini_spend_today
                ELSE gemini_spend_today
        /\ second_council' =
                IF council = 1 THEN second_council
                ELSE [second_council EXCEPT
                        !.gemini_spend_today = after.gemini_spend_today]
        /\ cost_today' = IF council = 1 THEN cost_today + cost ELSE cost_today
        /\ state_file' = _save_state(after, today)
        /\ mutations' = [mutations EXCEPT !.spend = @ + cost]
        /\ UNCHANGED <<council_vars, session_spawns, last_call, agent_vars,
                       groq_vars, today, store_vars, bus_vars, kernel_vars>>

SharedNext ==
    \/ \E council \in Councils :
          \E verdict \in SharedVerdicts(council),
             reported_outcome \in {"SUCCESS", "FAILURE"},
             details \in DetailsArguments :
            RecordOutcomeBy(council, verdict, reported_outcome, details)
    \/ \E council \in Councils, usage \in SharedUsages :
          RecordUsageBy(council, usage)

SharedSpec == SharedInit /\ [][SharedNext]_vars

-----------------------------------------------------------------------------
(* The events of deliberate: what the calls of one council publish on the   *)
(* bus, with no subscriber.  _run_agents publishes the votes in its loop    *)
(* over the gathered results (lines 141-157), after every agent ended.      *)

MaxDeliberations == 3

\* str(uuid.uuid4()) of the deliberate calls, in the order of the calls
LifecycleSessionIds == <<"s1", "s2", "s3", "s4">>

\* f"{route.primary_provider}/{route.model}" (line 60)
target_text(route) ==
    CASE route.primary_provider = "google" /\ route.model = "gemini-3-flash" ->
            "google/gemini-3-flash"
      [] route.primary_provider = "google" /\ route.model = "gemini-2.5-flash" ->
            "google/gemini-2.5-flash"
      [] route.primary_provider = "google" /\ route.model = "gemini-3-pro" ->
            "google/gemini-3-pro"
      [] route.primary_provider = "groq" /\ route.model = "llama-3.3-70b-versatile" ->
            "groq/llama-3.3-70b-versatile"
      [] route.primary_provider = "groq" /\ route.model = "mixtral-8x7b-32768" ->
            "groq/mixtral-8x7b-32768"
      [] OTHER -> "groq/llama3-70b-8192"

\* the publish calls of lines 56-63
opening_calls(sid, route) ==
    <<[event_type |-> "agent_action",
       data |-> [session_id |-> sid, agent |-> "Router", action |-> "route_task",
                 target |-> target_text(route)]],
      [event_type |-> "deliberation_start", data |-> [session_id |-> sid]]>>

\* the publish call of lines 141-157 for one processed result, if any
result_calls(sid, entry) ==
    IF entry.raw.kind = "exception"
    THEN <<[event_type |-> "error",
            data |-> [session_id |-> sid, agent |-> AgentNameOfKey(entry.key),
                      error |-> "exception"]]>>
    ELSE IF entry.raw.value.type # "dict" THEN <<>>
    ELSE IF AgentVerdict_accepts(entry.raw.value)
    THEN <<[event_type |-> "agent_vote",
            data |-> [session_id |-> sid, agent |-> AgentNameOfKey(entry.key),
                      verdict |-> entry.verdict,
                      confidence |-> entry.confidence]]>>
    ELSE <<[event_type |-> "error",
            data |-> [session_id |-> sid, agent |-> AgentNameOfKey(entry.key),
                      error |-> "Schema Validation Failed"]]>>

RECURSIVE run_agents_calls(_, _)
\* the publish calls of the loop of lines 141-157
run_agents_calls(sid, results) ==
    IF results = <<>> THEN <<>>
    ELSE result_calls(sid, Head(results)) \o run_agents_calls(sid, Tail(results))

\* the publish calls of a mediation (gemini_council.py line 77,
\* mediator.py lines 74 and 100)
mediation_calls(sid, m) ==
    <<[event_type |-> "error",
       data |-> [session_id |-> sid,
                 error |-> "DEADLOCK DETECTED - Spawning Mediator"]]>>
    \o (IF m.kind = "return" /\ ~m.spawned
        THEN <<[event_type |-> "error",
                data |-> [session_id |-> sid, error |-> "Mediator Spawn Failed"]]>>
        ELSE IF m.kind = "return" /\ m.result.action = "APPLY_RESOLUTION"
        THEN <<[event_type |-> "agent_action",
                data |-> [session_id |-> sid, agent |-> "Mediator",
                          action |-> "resolve_deadlock", target |-> NoKey]]>>
        ELSE <<>>)

\* closing calls that publish the end of a failed deliberation as well
closing_calls_end_always(sid, failed, error) ==
    IF failed
    THEN <<[event_type |-> "error", data |-> [session_id |-> sid, error |-> error]],
           [event_type |-> "deliberation_end",
            data |-> [session_id |-> sid, status |-> "failed"]]>>
    ELSE <<[event_type |-> "consensus_reached", data |-> [session_id |-> sid]],
           [event_type |-> "deliberation_end",
            data |-> [session_id |-> sid, status |-> "success"]]>>

\* the publish calls deliberate ends with: lines 93 and 95 when the session
\* is returned, line 105 or 108 when the failure policy decides
closing_calls(sid, failed, error) ==
    IF failed
    THEN <<[event_type |-> "error", data |-> [session_id |-> sid, error |-> error]]>>
    ELSE <<[event_type |-> "consensus_reached", data |-> [session_id |-> sid]],
           [event_type |-> "deliberation_end",
            data |-> [session_id |-> sid, status |-> "success"]]>>

\* the call ended through _handle_failure
failed_outcome(o) == o.kind = "raise" \/ o.fallback

\* the publish calls of lines 70-109 once the agents ended
concluding_calls(sid, results, configs, count, spend, context, ended) ==
    LET consensus == _calculate_consensus(results, configs)
        deadlock_data == [situation |-> "Council Consensus Weak",
                          conflicting_perspectives |-> results,
                          task_context |-> context]
        m == attempt_resolution(deadlock_data, count, spend)
    IN  run_agents_calls(sid, results)
        \o (IF ~reducer_raises(results) /\ in_deadlock_band(consensus)
            THEN mediation_calls(sid, m) ELSE <<>>)
        \o closing_calls(sid, failed_outcome(ended), "str(e)")

RECURSIVE publish_all(_, _, _)
\* event_bus.publish for each call of a sequence: the history left, the
\* events published and the last call as last_publish holds it
publish_all(detector_history, callbacks, calls) ==
    IF calls = <<>>
    THEN [history |-> detector_history, published |-> <<>>, last |-> NoPublish]
    ELSE LET p == publish(detector_history, callbacks, Head(calls).event_type,
                          Head(calls).data)
             rest == publish_all(p.history, callbacks, Tail(calls))
         IN  [history |-> rest.history,
              published |-> p.published \o rest.published,
              last |-> IF Tail(calls) # <<>> THEN rest.last
                       ELSE [event_type |-> Head(calls).event_type,
                             data |-> <<Head(calls).data>>,
                             history |-> detector_history,
                             published |-> p.published,
                             dispatched |-> p.dispatched]]

\* a council whose two agents weigh 1.0 each, or the first of them alone
LifecycleInit ==
    /\ agents \in {<< <<"Lead">> >>, << <<"Lead">>, <<"Val">> >>}
    /\ agent_configs = [name \in {<<"Lead">>, <<"Val">>} |->
                           [weight |-> 2, veto_power |-> FALSE]]
    /\ failure_policy \in {"fail_open", "fail_closed"}
    /\ session_spawns = [s \in Range(LifecycleSessionIds) |-> 0]
    /\ pc = "idle"
    /\ session_id = ""
    /\ raw_results = <<>>
    /\ reduced = NoConsensus
    /\ mediator_calls = 0
    /\ outcome = NoOutcome
    /\ last_call = NoCall
    /\ gemini_spend_today = 0
    /\ LedgerFileAtConstruction
    /\ StoreAtConstruction
    /\ BusAtConstruction
    /\ KernelAtConstruction
    /\ OneCouncilAtConstruction
    /\ AgentAtConstruction
    /\ LedgerAtConstruction

\* deliberate(code, context, complexity=complexity) up to the gather of
\* _run_agents (lines 52-136), with what it publishes
DeliberatePublishing(complexity) ==
    LET sid == LifecycleSessionIds[Len(history) + 1]
        route == route_task(TokenManager, complexity)
        p == publish_all(history, subscribers, opening_calls(sid, route))
    IN  /\ pc \in {"idle", "done"}
        /\ Len(history) < MaxDeliberations
        /\ session_spawns[sid] = 0
        /\ pc' = "agents"
        /\ session_id' = sid
        /\ session_constraints' =
              [language |-> default_language,
               constraints |-> get_active_constraints(memory_store,
                                   default_language, "general", today)]
        /\ agent_configs' = IF agents = <<>> /\ DOMAIN agent_configs = {}
                            THEN DefaultHierarchy ELSE agent_configs
        /\ raw_results' = <<>>
        /\ reduced' = NoConsensus
        /\ mediator_calls' = 0
        /\ outcome' = NoOutcome
        /\ last_route' = [NoRoute EXCEPT !.op = "route_task",
                                         !.complexity = complexity,
                                         !.decision = route]
        /\ history' = p.history
        /\ last_publish' = p.last
        /\ events' = p.published
        /\ UNCHANGED <<agents, failure_policy, session_spawns, ledger_vars,
                       last_call, agent_vars, groq_models, current_model_index,
                       memory_store, last_store, subscribers, kernel_vars,
                       shared_vars>>

\* the gather is complete: the results are processed and their events
\* published, then consensus, deadlock check, mediation, return (lines
\* 138-159 and 73-109)
ConcludePublishing ==
    /\ pc = "agents"
    /\ Len(raw_results) = Len(agents)
    /\ reduced' = IF reducer_raises(raw_results) THEN NoConsensus
                   ELSE _calculate_consensus(raw_results, agent_configs)
    /\ \E context \in IF in_deadlock_band(reduced') THEN TaskContexts ELSE {"general"} :
         LET c == conclude(raw_results, agent_configs, failure_policy,
                           session_spawns[session_id], gemini_spend_today, context)
             p == publish_all(history, subscribers,
                      concluding_calls(session_id, raw_results, agent_configs,
                          session_spawns[session_id], gemini_spend_today,
                          context, c.outcome))
         IN  /\ mediator_calls' = c.calls
             /\ outcome' = c.outcome
             /\ session_spawns' = IF c.spawned
                                  THEN record_spawn(session_spawns, session_id)
                                  ELSE session_spawns
             /\ history' = p.history
             /\ last_publish' = p.last
             /\ events' = events \o p.published
    /\ pc' = "done"
    /\ UNCHANGED <<agent_configs, agents, failure_policy, ledger_vars,
                   session_id, raw_results, last_call, agent_vars, groq_vars,
                   store_vars, subscribers, kernel_vars, shared_vars>>

\* asyncio.timeout(60) expires while the agents run (lines 104-106)
TimeoutPublishing ==
    LET p == publish_all(history, subscribers,
                         closing_calls(session_id, TRUE, "timeout"))
    IN  /\ pc = "agents"
        /\ Len(raw_results) < Len(agents)
        /\ outcome' = _handle_failure(failure_policy,
                                      <<"Council Deliberation Timed Out">>)
        /\ raw_results' = <<>>
        /\ pc' = "done"
        /\ history' = p.history
        /\ last_publish' = p.last
        /\ events' = events \o p.published
        /\ UNCHANGED <<agent_configs, agents, failure_policy, session_spawns,
                       ledger_vars, session_id, reduced, mediator_calls,
                       last_call, agent_vars, groq_vars, store_vars,
                       subscribers, kernel_vars, shared_vars>>

LifecycleNext ==
    \/ \E complexity \in Complexities : DeliberatePublishing(complexity)
    \/ \E result \in AgentResults : AgentResult(result)
    \/ ConcludePublishing
    \/ TimeoutPublishing

LifecycleSpec == LifecycleInit /\ [][LifecycleNext]_vars

-----------------------------------------------------------------------------
(* The Ledger's Groq side: usages recorded on every model of the chain *)

RECURSIVE requests_recorded(_)
\* the requests the models of a chain have counted, together
requests_recorded(models) ==
    IF models = <<>> THEN 0
    ELSE Head(models).requests_this_minute + requests_recorded(Tail(models))

\* token_manager.record_usage("groq", tokens, model, status_code)
RecordGroqUsage(usage) ==
    /\ requests_recorded(groq_models) < MaxRotationRequests
    /\ RecordUsage(usage.provider, usage.tokens, usage.model, usage.status_code)

RotationNext ==
    \/ \E usage \in RotationUsages : RecordGroqUsage(usage)
    \/ \E complexity \in {default_complexity, 4}, task_type \in TaskTypes :
         CanMakeRequest("groq", default_estimated_tokens, complexity, task_type)

RotationSpec == LedgerInit /\ [][RotationNext]_vars

-----------------------------------------------------------------------------
(* Properties of the reducer and of deliberate, under Spec *)

\* the last deliberate call ran its agents and reduced their results
Reduced == pc = "done" /\ Len(raw_results) = Len(agents)

\* agents configured with veto_power whose verdict is FAIL
ConfiguredVetoers ==
    {i \in DOMAIN raw_results :
        agent_configs[agents[i]].veto_power /\ raw_results[i].verdict = "FAIL"}

\* the reducer resolved for every result the configuration of its agent
ResolvedAsConfigured ==
    \A i \in DOMAIN raw_results :
        ConfigOfKey(agent_configs, raw_results[i].key) = agent_configs[agents[i]]

\* C1: veto dominance.  Whenever an agent configured with veto_power returned
\* FAIL, the reducer returns decision FAIL with confidence 1.0 and a reason
\* that names every vetoing agent, whatever the other results are.
C1_VetoDominance ==
    (Reduced /\ ConfiguredVetoers # {}) =>
        /\ reduced.decision = "FAIL"
        /\ reduced.confidence = 100
        /\ Head(reduced.reason) = "Blocked by Veto"
        /\ \A i \in ConfiguredVetoers : agents[i] \in Range(Tail(reduced.reason))

\* C2: whenever the consensus confidence of a deliberation lies in
\* [0.40, 0.60], deliberate invoked the mediator exactly once and the session
\* it returns carries the mediation record in its consensus.
C2_DeadlockMediated ==
    (pc = "done" /\ in_deadlock_band(reduced)) =>
        /\ mediator_calls = 1
        /\ outcome.kind = "return"
        /\ outcome.mediation.action # "NONE"

\* the scenario of C3: two agents configured with weights 3.0 and 1.0 and no
\* veto power; the first returns PASS at 0.9, the second FAIL at 0.9
C3_Scenario ==
    /\ Reduced
    /\ Len(agents) = 2
    /\ \E i, j \in DOMAIN raw_results :
        /\ agent_configs[agents[i]] = [weight |-> 6, veto_power |-> FALSE]
        /\ agent_configs[agents[j]] = [weight |-> 2, veto_power |-> FALSE]
        /\ raw_results[i].verdict = "PASS" /\ raw_results[i].confidence = 90
        /\ raw_results[j].verdict = "FAIL" /\ raw_results[j].confidence = 90

\* C3 as stated: in the scenario the reducer returns decision PASS.
C3_ScenarioPass == C3_Scenario => reduced.decision = "PASS"

\* C3, amended: in the scenario the reducer returns decision WARN; where both
\* names resolve to their configuration the weighted score is 0.675 (27/40)
\* and the confidence reported is 0.68.
C3_ScenarioWarn ==
    C3_Scenario =>
        /\ reduced.decision = "WARN"
        /\ ResolvedAsConfigured =>
            /\ 40 * total_score(raw_results, agent_configs)
                  = 27 * 200 * total_weight(raw_results, agent_configs)
            /\ reduced.confidence = 68

C3_ScenarioReached == C3_Scenario /\ ResolvedAsConfigured /\ outcome.kind = "return"

\* C4: whenever there are no results, or only agents configured with weight
\* zero, and no veto, the reducer returns decision FAIL with confidence 0.0.
C4_ZeroWeightFails ==
    (/\ Reduced
     /\ ConfiguredVetoers = {}
     /\ \A i \in DOMAIN raw_results : agent_configs[agents[i]].weight = 0) =>
        reduced.decision = "FAIL" /\ reduced.confidence = 0

C6_MediatedDecision ==
    (pc = "done" /\ mediator_calls = 1) =>
        /\ outcome.kind = "return"
        /\ \/ /\ outcome.mediation.action = "APPLY_RESOLUTION"
              /\ outcome.mediation.resolution.verdict = "COMPROMISE"
              /\ outcome.consensus.decision = "PASS"
              /\ outcome.consensus.reason = reduced.reason \o
                    <<"MEDIATED", outcome.mediation.resolution.rewritten_instructions>>
           \/ /\ outcome.mediation.action = "APPLY_RESOLUTION"
              /\ outcome.mediation.resolution.verdict # "COMPROMISE"
              /\ outcome.consensus.decision = "FAIL"
           \/ /\ outcome.mediation.action = "HALT"
              /\ outcome.consensus = reduced

-----------------------------------------------------------------------------
(* Properties of the mediator, under MediatorSpec *)

\* C7: an attempt_resolution call records a spawn only below the cap, so it
\* never takes a session's count above 3; an attempt made with 3 or more
\* spawns recorded returns HALT with a reason, does not consult the Ledger
\* and leaves the count as it was.
C7_SpawnCap ==
    last_call.op = "attempt_resolution" =>
        /\ last_call.spawned => last_call.count_before < max_spawns
        /\ \/ session_spawns[last_call.session] = last_call.count_before
           \/ session_spawns[last_call.session] <= max_spawns
        /\ last_call.count_before >= max_spawns =>
            /\ last_call.kind = "return"
            /\ last_call.result.action = "HALT"
            /\ last_call.result.reason # <<>>
            /\ last_call.ledger_call = NoLedgerCall
            /\ ~last_call.spawned
            /\ session_spawns[last_call.session] = last_call.count_before

C7_AttemptAtCap ==
    /\ last_call.op = "attempt_resolution"
    /\ last_call.count_before = max_spawns
    /\ last_call.result.action = "HALT"

\* C8: the n-th attempt of a session (fewer than 3 spawns recorded) is checked
\* against the Ledger with 4000, 6000 and 8000 tokens; it halts only if the
\* Ledger's budget cannot cover the estimate, and otherwise records the spawn
\* and goes on to ANALYZE.
C8_SpawnCheck ==
    (last_call.op = "attempt_resolution" /\ last_call.count_before < max_spawns) =>
        LET estimate == <<4000, 6000, 8000>>[last_call.count_before + 1]
            covered == can_make_request(TokenManagerAt(gemini_spend_today), "google",
                                        estimate, default_complexity, "general").allowed
        IN  /\ last_call.kind = "return"
            /\ last_call.ledger_call.estimated_tokens = estimate
            /\ covered => (last_call.spawned /\ last_call.result.action # "HALT")
            /\ ~covered => (~last_call.spawned /\ last_call.result.action = "HALT")

\* C9: the human gate.  The result that stages ANALYZE to HUMAN_GATE give for
\* the deadlock of an attempt, when it is applied, requires a human whenever
\* the task is security or architecture, and otherwise exactly when the
\* resolution confidence is below 0.8.
C9_HumanGate ==
    last_call.op = "attempt_resolution" =>
        LET r == resolution_stages([situation |-> "Council Consensus Weak",
                                    conflicting_perspectives |-> <<>>,
                                    task_context |-> last_call.task_context])
        IN  r.action = "APPLY_RESOLUTION" =>
               (r.requires_human <=>
                   \/ last_call.task_context \in {"security", "architecture"}
                   \/ r.resolution.confidence < 80)

-----------------------------------------------------------------------------
(* Properties of the agent caller, under AgentSpec *)

\* a value that is a verdict: a JSON object that holds a verdict of the
\* Verdict Schema and a confidence
IsVerdict(value) ==
    /\ value.type = "dict"
    /\ {"verdict", "confidence"} \subseteq value.keys
    /\ value.verdict \in VerdictType

\* a value that is structurally valid against the Verdict Schema: at minimum
\* verdict, confidence, evidence
SchemaValid(value) ==
    IsVerdict(value) /\ "evidence" \in value.keys

\* the transport call failed: it raised, or its response is malformed
CallFailed(call) ==
    call.reply.raised \/ ~SchemaValid(_validate_structure(call.reply.raw))

\* C11: query returns a verdict for every combination of transport
\* exceptions, malformed responses and open breakers; when every model of the
\* active chain failed or was skipped as open, the verdict is ERROR with
\* confidence 0.0 and a reasoning that names every model that was attempted.
C11_QueryReturnsVerdict ==
    last_query.op = "query" =>
        /\ IsVerdict(last_query.result)
        /\ (\A i \in DOMAIN last_query.calls : CallFailed(last_query.calls[i])) =>
              /\ last_query.result.verdict = "ERROR"
              /\ last_query.result.confidence = 0
              /\ \A i \in DOMAIN last_query.calls :
                    last_query.calls[i].model \in Range(last_query.result.reasoning)

\* C12: the fallback chain.  The models called and the models skipped are,
\* in order, the active chain or a beginning of it; every call but the last
\* failed; a model whose call failed has a failure on its breaker and the
\* query went on to the end of the chain or to a valid verdict; a model
\* whose response is structurally valid has its breaker reset and its verdict
\* is what the query returns.
C12_FallbackChain ==
    last_query.op = "query" =>
        LET chain == active_chain(last_query.system_context)
            calls == last_query.calls
            tried == {calls[i].model : i \in DOMAIN calls} \cup Range(last_query.skipped)
        IN  /\ \E n \in 0..Len(chain) : tried = {chain[k] : k \in 1..n}
            /\ \A i, j \in DOMAIN calls :
                  i < j => \E a, b \in DOMAIN chain :
                              /\ a < b
                              /\ chain[a] = calls[i].model
                              /\ chain[b] = calls[j].model
            /\ \A i \in DOMAIN calls :
                  IF CallFailed(calls[i])
                  THEN /\ calls[i].model \in DOMAIN circuit_breakers
                       /\ circuit_breakers[calls[i].model].failures >= 1
                       /\ \/ i < Len(calls)
                          \/ /\ tried = Range(chain)
                             /\ last_query.result.verdict = "ERROR"
                  ELSE /\ i = Len(calls)
                       /\ last_query.result = _validate_structure(calls[i].reply.raw)
                       /\ calls[i].model \in DOMAIN circuit_breakers =>
                             circuit_breakers[calls[i].model].failures = 0

-----------------------------------------------------------------------------
(* Properties of _run_agents and deliberate, under RunAgentsSpec *)

\* what an agent gave is a valid verdict under the Verdict Schema
ValidVerdictResult(result) ==
    /\ result.kind = "value"
    /\ result.value.type = "dict"
    /\ AgentVerdict_accepts(result.value)

\* C13: agent failure isolation.  In a deliberation whose agents all ended
\* and that did not go to the mediator, every agent whose query raised or
\* gave something that is not a valid verdict has the entry ERROR with
\* confidence 0.0, every other agent's entry is its verdict unchanged, and
\* deliberate returns a session whose consensus is the reducer's over all the
\* entries.
C13_FailureIsolation ==
    (pc = "done" /\ Len(raw_results) = Len(agents) /\ mediator_calls = 0) =>
        /\ \A i \in DOMAIN raw_results :
              IF ValidVerdictResult(raw_results[i].raw)
              THEN /\ raw_results[i].verdict = raw_results[i].raw.value.verdict
                   /\ raw_results[i].confidence = raw_results[i].raw.value.confidence
              ELSE /\ raw_results[i].type = "dict"
                   /\ raw_results[i].verdict = "ERROR"
                   /\ raw_results[i].confidence = 0
        /\ outcome.kind = "return"
        /\ ~outcome.fallback
        /\ outcome.consensus = _calculate_consensus(raw_results, agent_configs)

\* the last deliberate call ended in a deliberation-fatal error: it raised,
\* or it returned the fallback result
DeliberationFailed ==
    pc = "done" /\ (outcome.kind = "raise" \/ outcome.fallback)

\* C14: every deliberation-fatal error (the timeout, or an exception raised
\* in routing, in the agents' processing, in the reducer or in mediation) is
\* governed by the failure policy.  Under FAIL_OPEN deliberate returns a
\* result with decision WARN and fallback=true that holds no mediation or
\* other session data; under FAIL_CLOSED it raises the governance exception
\* "Council Failure (CLOSED)".
C14_FailureGoverned ==
    DeliberationFailed =>
        IF failure_policy = "fail_open"
        THEN /\ outcome.kind = "return"
             /\ outcome.fallback
             /\ outcome.consensus.decision = "WARN"
             /\ outcome.mediation = NoMediation
        ELSE /\ outcome.kind = "raise"
             /\ outcome.consensus.reason # <<>>
             /\ Head(outcome.consensus.reason) = "Council Failure (CLOSED)"

-----------------------------------------------------------------------------
(* Further properties of the reducer, under Spec *)

\* the sum of the weights the agents of the panel are configured with
RECURSIVE ConfiguredWeight(_)
ConfiguredWeight(names) ==
    IF names = <<>> THEN 0
    ELSE agent_configs[Head(names)].weight + ConfiguredWeight(Tail(names))

\* the results with the verdict of agent i replaced by ERROR at 0.0
ReplacedByError(i) ==
    [raw_results EXCEPT ![i].verdict = "ERROR", ![i].confidence = 0]

\* C15: no silent drops.  Every result, an ERROR too, counts with its
\* agent's full configured weight in the denominator of the weighted score
\* and an ERROR counts 0 in the numerator: replacing an agent's PASS or WARN
\* of positive confidence by ERROR leaves the denominator as it is, never
\* raises the weighted score and lowers it when the agent's weight is
\* positive.
C15_NoSilentDrops ==
    Reduced =>
        /\ total_weight(raw_results, agent_configs) = ConfiguredWeight(agents)
        /\ \A i \in DOMAIN raw_results :
              (raw_results[i].verdict \in {"PASS", "WARN"}
                  /\ raw_results[i].confidence > 0) =>
                 LET ts == total_score(raw_results, agent_configs)
                     tw == total_weight(raw_results, agent_configs)
                     ts_error == total_score(ReplacedByError(i), agent_configs)
                     tw_error == total_weight(ReplacedByError(i), agent_configs)
                 IN  /\ tw_error = tw
                     /\ ts_error <= ts
                     /\ agent_configs[agents[i]].weight > 0 => ts_error < ts

\* the orderings of a sequence of results
Orderings(results) ==
    {[i \in DOMAIN results |-> results[f[i]]] :
        f \in {g \in [DOMAIN results -> DOMAIN results] :
                 \A i, j \in DOMAIN results : i # j => g[i] # g[j]}}

\* C16: the reducer is order-independent.  For the configuration of the
\* council, every ordering of the results of a deliberation gives the
\* consensus the reducer returned: the same decision, the same confidence and
\* the same reason.
C16_OrderIndependent ==
    Reduced =>
        \A ordering \in Orderings(raw_results) :
            _calculate_consensus(ordering, agent_configs) = reduced

-----------------------------------------------------------------------------
(* Properties of the router and the Ledger, under LedgerSpec *)

\* the Groq model in rotation
CurrentGroqModel == groq_models[current_model_index + 1]

\* C17: router banding.  route_task returns google / gemini-3-flash with
\* max_tokens 2000 for complexity 1 and 2; for complexity 3 and 4 the Groq
\* model in rotation with max_tokens 4000 if the Ledger allows a request on
\* it (its requests of the minute are below the limit), else google /
\* gemini-2.5-flash with max_tokens 4000; for complexity 5 google /
\* gemini-3-pro with max_tokens 8192 whatever the Ledger holds.
C17_RouterBanding ==
    last_route.op = "route_task" =>
        LET d == last_route.decision IN
        /\ last_route.complexity <= 2 =>
              /\ d.primary_provider = "google"
              /\ d.model = "gemini-3-flash"
              /\ d.max_tokens = 2000
        /\ last_route.complexity \in {3, 4} =>
              IF CurrentGroqModel.requests_this_minute < rate_limit_rpm
              THEN /\ d.primary_provider = "groq"
                   /\ d.model = CurrentGroqModel.name
                   /\ d.max_tokens = 4000
              ELSE /\ d.primary_provider = "google"
                   /\ d.model = "gemini-2.5-flash"
                   /\ d.max_tokens = 4000
        /\ last_route.complexity = 5 =>
              /\ d.primary_provider = "google"
              /\ d.model = "gemini-3-pro"
              /\ d.max_tokens = 8192

\* a task of complexity 3 routed while the Ledger denies the Groq model
C17_MidTierDenied ==
    /\ last_route.op = "route_task"
    /\ last_route.complexity = 3
    /\ CurrentGroqModel.requests_this_minute >= rate_limit_rpm
    /\ last_route.decision.model = "gemini-2.5-flash"

\* the Groq model the last can_make_request call chose
ChosenGroqModel ==
    groq_models[CHOOSE i \in DOMAIN groq_models :
                    groq_models[i].name = last_route.answer.model]

\* C19: for provider groq, can_make_request is denied with a positive wait
\* hint whenever the chosen model's requests of the minute reached its rpm
\* limit or its tokens of the minute reached its tpm limit, and is allowed
\* with wait 0 otherwise.
C19_GroqCaps ==
    (last_route.op = "can_make_request" /\ last_route.provider = "groq") =>
        IF \/ ChosenGroqModel.requests_this_minute >= rate_limit_rpm
           \/ ChosenGroqModel.tokens_this_minute >= rate_limit_tpm
        THEN ~last_route.answer.allowed /\ last_route.answer.wait > 0
        ELSE last_route.answer.allowed /\ last_route.answer.wait = 0

\* C20: the per-minute counters are reset on a one-minute cadence.  When a
\* minute has gone by with no call on the Ledger, every Groq model's
\* requests and tokens of the minute are zero, so that a model that was
\* denied for its cap is allowed again.
C20_MinuteReset ==
    last_route.op = "minute_passed" =>
        /\ \A i \in DOMAIN groq_models :
              /\ groq_models[i].requests_this_minute = 0
              /\ groq_models[i].tokens_this_minute = 0
        /\ can_make_request(TokenManager, "groq", default_estimated_tokens,
                            default_complexity, "general").allowed

-----------------------------------------------------------------------------
(* Properties of the Verdict Schema, under SchemaSpec *)

\* the evidence entry carries one of the three recognized tags
Tagged(entry) == entry # <<>> /\ entry[1] \in {"[SRC:", "[CMD:", "[TBD:"}

\* a confidence (in hundredths) clamped into [0, 1]
Clamped(confidence) ==
    IF confidence < 0 THEN 0
    ELSE IF confidence > 100 THEN 100
    ELSE confidence

\* C30: of the verdicts the agents return, one with an evidence entry that
\* carries none of the tags [SRC:, [CMD:, [TBD: is rejected (its entry is
\* the ERROR verdict with confidence 0.0); every other one is accepted with
\* its verdict and with its confidence clamped into [0, 1], an out-of-range
\* confidence causing no rejection; so every accepted confidence is within
\* [0, 1].
C30_VerdictSchema ==
    \A i \in DOMAIN raw_results :
       LET given == raw_results[i].raw.value
       IN  /\ 0 <= raw_results[i].confidence
           /\ raw_results[i].confidence <= 100
           /\ IF \E k \in DOMAIN given.evidence : ~Tagged(given.evidence[k])
              THEN /\ raw_results[i].verdict = "ERROR"
                   /\ raw_results[i].confidence = 0
              ELSE /\ raw_results[i].verdict = given.verdict
                   /\ raw_results[i].confidence = Clamped(given.confidence)

-----------------------------------------------------------------------------
(* Properties of the budget, under BudgetSpec *)

\* C22: for provider google, can_make_request is denied exactly when the
\* spend to date plus the estimated cost (estimated tokens times the unit
\* rate) exceeds the daily budget, and approved when that sum is at or below
\* the budget.
C22_BudgetBoundary ==
    (last_route.op = "can_make_request" /\ last_route.provider = "google") =>
        (~last_route.answer.allowed <=>
            gemini_spend_today + last_route.estimated_tokens * pro_rate
                > daily_budget)

\* C23: the Ledger's spend to date always equals the total cost recorded on
\* the current calendar day: over a restart on the same day, over a reload
\* with a stored date that is not today, and in a TokenManager that keeps
\* running across midnight.
C23_SpendOfToday == gemini_spend_today = cost_today

-----------------------------------------------------------------------------
(* Properties of the Constraint Store, under StoreSpec *)

\* the last call added a constraint to the store
ConstraintAdded == last_store.op = "add_constraint"

\* the constraint as add_constraint was given it
GivenConstraint == last_store.argument[1]

\* the constraint as add_constraint stored it
StoredConstraint == last_store.result[1]

\* C24: an EXPERIMENTAL constraint added without an explicit expiry receives
\* an expiry exactly 30 days after its created_at; a constraint of another
\* tier, or one with an explicit expiry, keeps its expires_at.
C24_ExperimentalExpiry ==
    ConstraintAdded =>
        IF GivenConstraint.tier = "experimental"
           /\ GivenConstraint.expires_at = NoTime
        THEN StoredConstraint.expires_at
                = StoredConstraint.created_at + thirty_days
        ELSE StoredConstraint.expires_at = GivenConstraint.expires_at

\* C25: every constraint whose pattern is shorter than 3 characters is
\* stored inactive and with a warning in its metadata, in the store and in
\* its file, and get_active_constraints never returns one.
C25_AntiPoisoning ==
    /\ \A i \in DOMAIN memory_store.constraints :
          len(memory_store.constraints[i].pattern) < 3 =>
              /\ ~memory_store.constraints[i].active
              /\ memory_store.constraints[i].metadata.warning # ""
    /\ \A i \in DOMAIN memory_store.constraints_file.content :
          len(memory_store.constraints_file.content[i].pattern) < 3 =>
              ~memory_store.constraints_file.content[i].active
    /\ last_store.op = "get_active_constraints" =>
          \A i \in DOMAIN last_store.result :
              len(last_store.result[i].pattern) >= 3

\* a query that a stored constraint with a short pattern matches, unexpired,
\* was answered
C25_ShortPatternQueried ==
    /\ last_store.op = "get_active_constraints"
    /\ \E i \in DOMAIN memory_store.constraints :
          /\ len(memory_store.constraints[i].pattern) < 3
          /\ matches(memory_store.constraints[i], last_store.language,
                     last_store.domain)
          /\ ~is_expired(memory_store.constraints[i], today)
    /\ last_store.result # <<>>

\* what the round trip is compared on
Identity(constraint) ==
    [id |-> constraint.id, tier |-> constraint.tier, scope |-> constraint.scope,
     expires_at |-> constraint.expires_at, active |-> constraint.active]

\* the active constraints of a store for a query, as a set
ActiveSet(store, language, domain) ==
    {Identity(c) : c \in Range(get_active_constraints(store, language, domain,
                                                      today))}

\* a MemoryStore built now on the storage directory
Reloaded ==
    NewMemoryStore(memory_store.constraints_file, memory_store.incidents_file)

-----------------------------------------------------------------------------
(* Properties of the feedback loop, under FeedbackSpec *)

\* what the last record_outcome call was given, and the store before it
OutcomeCall == last_store.argument[1]

\* the call was for a PASS decision reported as FAILURE or INCIDENT
FalseNegative ==
    /\ OutcomeCall.verdict.decision = "PASS"
    /\ OutcomeCall.outcome \in {"FAILURE", "INCIDENT"}

\* the text the failure is described with
FailureText ==
    IF OutcomeCall.details.error = NoKey THEN "Unknown runtime error"
    ELSE OutcomeCall.details.error

\* the last constraint of the store
LearnedConstraint ==
    memory_store.constraints[Len(memory_store.constraints)]

\* C27: record_outcome appends exactly one incident, and adds one constraint
\* if and only if the decision was PASS and the outcome FAILURE or INCIDENT;
\* that constraint is EXPERIMENTAL, of source reflexion_loop and of domain
\* security when the failure text holds the keyword security, general
\* otherwise; for every other pair the constraint list is unchanged.
C27_RecordOutcome ==
    last_store.op = "record_outcome" =>
        /\ Len(memory_store.incidents) = Len(OutcomeCall.store.incidents) + 1
        /\ SubSeq(memory_store.incidents, 1, Len(OutcomeCall.store.incidents))
              = OutcomeCall.store.incidents
        /\ IF FalseNegative
           THEN /\ Len(memory_store.constraints)
                      = Len(OutcomeCall.store.constraints) + 1
                /\ SubSeq(memory_store.constraints, 1,
                          Len(OutcomeCall.store.constraints))
                      = OutcomeCall.store.constraints
                /\ LearnedConstraint.tier = "experimental"
                /\ LearnedConstraint.source = "reflexion_loop"
                /\ LearnedConstraint.scope.domain
                      = IF FailureText = "Security Breach: eval used"
                        THEN "security" ELSE "general"
           ELSE memory_store.constraints = OutcomeCall.store.constraints

\* an INCIDENT after a PASS was recorded in a store that held a constraint,
\* and a second constraint was learned
C27_LearnedFromIncident ==
    /\ last_store.op = "record_outcome"
    /\ FalseNegative
    /\ OutcomeCall.outcome = "INCIDENT"
    /\ OutcomeCall.store.constraints # <<>>
    /\ Len(memory_store.constraints) = 2

-----------------------------------------------------------------------------
(* Properties of the learning loop, under LearningSpec *)

\* a deliberate call fetches its constraints in this step
DeliberateStarts == pc # "agents" /\ pc' = "agents"

\* the incident reports a failure, with a fragment of at least 3 characters,
\* of code the council had passed
PassedAndFailed(incident) ==
    /\ incident.decision = "PASS"
    /\ incident.outcome = "FAILURE"
    /\ incident.details.failed_line # NoKey
    /\ len(incident.details.failed_line) >= 3

\* the constraint is the one learned from the incident
LearnedFrom(constraint, incident) ==
    /\ constraint.tier = "experimental"
    /\ constraint.source = "reflexion_loop"
    /\ constraint.pattern = incident.details.failed_line
    /\ isoformat(constraint.created_at) = incident.timestamp

\* the constraint is active and its expiry, if it has one, is not behind
InForce(constraint) ==
    /\ constraint.active
    /\ constraint.expires_at = NoTime \/ today <= constraint.expires_at

\* C28: a deliberate call on an empty store passes no constraints to the
\* agents; and once a PASS reported as FAILURE (fragment of 3 characters or
\* more) is in the store, the store holds the EXPERIMENTAL constraint learned
\* from it, and every deliberate call, whatever its language, passes that
\* constraint to the agents' queries while it is active and not expired.
C28_LearningLoop ==
    [][DeliberateStarts =>
        /\ memory_store.constraints = <<>>
              => session_constraints'.constraints = <<>>
        /\ \A i \in DOMAIN memory_store.incidents :
              PassedAndFailed(memory_store.incidents[i]) =>
                 \E j \in DOMAIN memory_store.constraints :
                    /\ LearnedFrom(memory_store.constraints[j],
                                   memory_store.incidents[i])
                    /\ InForce(memory_store.constraints[j])
                         => \E k \in DOMAIN session_constraints'.constraints :
                               session_constraints'.constraints[k]
                                  = memory_store.constraints[j]]_vars

\* a deliberate call for go, a day or more after the failure was reported,
\* passed the learned constraint of domain security to its agents
C28_LearnedConstraintPassed ==
    /\ pc = "agents"
    /\ session_constraints.language = "go"
    /\ today >= 1
    /\ \E k \in DOMAIN session_constraints.constraints :
          /\ session_constraints.constraints[k].source = "reflexion_loop"
          /\ session_constraints.constraints[k].scope.domain = "security"
          /\ session_constraints.constraints[k].created_at = 0

-----------------------------------------------------------------------------
(* Properties of the circuit breakers, under AgentSpec *)

\* the state of a breaker at an instant, as the spec names it
breaker_state(cb, now) ==
    IF cb.failures < failure_threshold THEN "CLOSED"
    ELSE IF now - cb.last_failure_time > recovery_timeout THEN "HALF-OPEN"
    ELSE "OPEN"

\* the last query called the transport of the model
Called(q, model) == \E i \in DOMAIN q.calls : q.calls[i].model = model

\* the last query skipped the model
Skipped(q, model) == \E i \in DOMAIN q.skipped : q.skipped[i] = model

\* the last query returned what the model answered
Succeeded(q, model) ==
    /\ q.calls # <<>>
    /\ q.calls[Len(q.calls)].model = model
    /\ q.result.verdict # "ERROR"

\* a query reached the model in this step
QueryReached(model) ==
    /\ clock' = clock
    /\ last_query'.op = "query"
    /\ Called(last_query', model) \/ Skipped(last_query', model)

\* what the claim says a query does to the breaker of a model it reaches
BreakerStep(model) ==
    LET cb == circuit_breakers[model]
        after == circuit_breakers'[model]
        q == last_query'
        before_state == breaker_state(cb, clock)
    IN  /\ before_state = "OPEN" =>
              /\ Skipped(q, model) /\ ~Called(q, model)
              /\ after = cb
        /\ before_state # "OPEN" => Called(q, model) /\ ~Skipped(q, model)
        /\ Called(q, model) /\ Succeeded(q, model) =>
              /\ after.failures = 0
              /\ breaker_state(after, clock) = "CLOSED"
        /\ Called(q, model) /\ ~Succeeded(q, model) /\ before_state = "CLOSED" =>
              /\ after.failures = cb.failures + 1
              /\ breaker_state(after, clock) =
                    IF cb.failures + 1 >= failure_threshold THEN "OPEN"
                    ELSE "CLOSED"
        /\ Called(q, model) /\ ~Succeeded(q, model) /\ before_state = "HALF-OPEN" =>
              /\ \A t \in clock..(clock + recovery_timeout) :
                    breaker_state(after, t) = "OPEN"
              /\ breaker_state(after, clock + recovery_timeout + 1) = "HALF-OPEN"

\* C33: the breaker of a model is CLOSED and the model is called until
\* failure_threshold consecutive failures are counted, a success setting
\* the count to zero; it is then OPEN and the model is skipped, without a
\* transport call, until recovery_timeout has gone by since the last
\* failure; it is HALF-OPEN after that and the next call is made; a success
\* in HALF-OPEN closes it and a failure in HALF-OPEN opens it for a further
\* full recovery_timeout.
C33_BreakerCycle ==
    [][\A model \in DOMAIN circuit_breakers :
          QueryReached(model) => BreakerStep(model)]_vars

\* a failure in HALF-OPEN was recorded: the breaker counts more failures
\* than the threshold and the last one came after a whole recovery_timeout
C33_ReopenedFromHalfOpen ==
    \E model \in DOMAIN circuit_breakers :
       /\ circuit_breakers[model].failures > failure_threshold
       /\ circuit_breakers[model].last_failure_time > recovery_timeout
       /\ Called(last_query, model)
       /\ breaker_state(circuit_breakers[model], clock) = "OPEN"

-----------------------------------------------------------------------------
(* Properties of the events of deliberate, under LifecycleSpec *)

\* where the events of a type stand among the events of the current call
Positions(type) == {i \in DOMAIN events : events[i].type = type}

\* every event of the first type stands before every event of the second
AllBefore(first, second) ==
    \A i \in Positions(first), j \in Positions(second) : i < j

\* the call returned a session
SessionReturned == pc = "done" /\ outcome.kind = "return" /\ ~outcome.fallback

\* C36: in every deliberate call the deliberation-start event is published
\* before any agent-vote event, every agent-vote event before the
\* consensus-reached event and consensus-reached before the
\* deliberation-end event; deliberation-end is published exactly once when
\* the session is returned, and never when the call ends through the
\* failure policy: an error event is published then.
C36_LifecycleOrder ==
    /\ AllBefore("deliberation_start", "agent_vote")
    /\ AllBefore("agent_vote", "consensus_reached")
    /\ AllBefore("consensus_reached", "deliberation_end")
    /\ Positions("agent_vote") \cup Positions("consensus_reached") # {} =>
          Positions("deliberation_start") # {}
    /\ Positions("deliberation_end") # {} => Positions("consensus_reached") # {}
    /\ SessionReturned => Cardinality(Positions("deliberation_end")) = 1
    /\ ~SessionReturned => Positions("deliberation_end") = {}
    /\ (pc = "done" /\ failed_outcome(outcome)) => Positions("error") # {}

\* a session was returned after two votes, and the call before it ended
\* through the failure policy
C36_ReturnedAfterVotes ==
    /\ SessionReturned
    /\ Cardinality(Positions("agent_vote")) = 2
    /\ Positions("consensus_reached") # {}
    /\ Len(history) > 1

\* C40: the routing events of separate deliberate calls that choose the
\* same provider and model never add up to a loop detection: no deliberate
\* call publishes a LOOP_DETECTED event, the third of three consecutive
\* deliberations routed to the same model neither.
C40_NoLoopOnRouting == Positions("loop_detected") = {}

-----------------------------------------------------------------------------
(* Properties of the result keys, under Spec *)

\* C38: for every agent of the configuration, one whose name holds an
\* underscore too, the name the reducer recovers from the result key
\* '<name>_<index>' is the agent's full name and the weight and veto_power it
\* applies are the configured ones, so the FAIL of an agent configured with
\* veto_power is a veto and never an ordinary vote of weight 1.0.
C38_UnderscoreNames ==
    Reduced =>
        /\ \A i \in DOMAIN raw_results :
              /\ raw_results[i].key = ResultKey(agents[i], i - 1)
              /\ AgentNameOfKey(raw_results[i].key) = agents[i]
              /\ ConfigOfKey(agent_configs, raw_results[i].key)
                    = agent_configs[agents[i]]
        /\ ConfiguredVetoers # {} =>
              reduced.decision = "FAIL" /\ reduced.confidence = 100

-----------------------------------------------------------------------------
(* Properties of a vetoed consensus, under Spec *)

\* the reducer returned at line 187 or at line 190
VetoedOrWeightless ==
    /\ reduced.reason # <<>>
    /\ Head(reduced.reason) \in {"Blocked by Veto", "No valid votes cast"}

\* C37: a consensus forced to FAIL by a veto (confidence 1.0) or produced
\* by a total weight of zero (confidence 0.0) is never given to the
\* mediator and is returned as it is, so no deliberation in which an agent
\* configured with veto_power returned FAIL returns the decision PASS.
C37_VetoFinal ==
    Reduced =>
        /\ VetoedOrWeightless =>
              /\ mediator_calls = 0
              /\ outcome.kind = "return"
              /\ outcome.consensus = reduced
        /\ ConfiguredVetoers # {} => outcome.consensus.decision # "PASS"

-----------------------------------------------------------------------------
(* Properties of the deadlock band, under BandSpec *)

\* a deliberation ended after its reducer ran
Concluded == pc = "done" /\ Len(raw_results) = Len(agents) /\ reduced # NoConsensus

\* the weighted score total_score / total_weight of the reducer lies in
\* [0.40, 0.60]; the score is ts / (200 * tw) in the units of the model
ScoreInBand ==
    LET ts == total_score(raw_results, agent_configs)
        tw == total_weight(raw_results, agent_configs)
    IN  /\ tw > 0
        /\ 80 * tw <= ts
        /\ ts <= 120 * tw

\* C35: deliberate invokes the mediator only when the weighted score of the
\* reducer itself lies in [0.40, 0.60]: a score below 0.40 or above 0.60
\* never causes a mediation.
C35_LiteralBand ==
    (Concluded /\ mediator_calls > 0) => ScoreInBand

-----------------------------------------------------------------------------
(* Properties of the breakers of forced models, under AgentSpec *)

\* a query on a context happens in this step
QueryOn(model) ==
    /\ clock' = clock
    /\ last_query'.op = "query"
    /\ model \in Range(active_chain(last_query'.system_context))

\* the agent failed on the model failure_threshold times in a row or more,
\* the last time no longer than recovery_timeout ago
FailedInARow(model) ==
    /\ streak_of(last_query.streaks, model).failed >= failure_threshold
    /\ clock - streak_of(last_query.streaks, model).last <= recovery_timeout

\* the models an agent can be asked to attempt
AttemptedModels ==
    UNION {Range(active_chain(system_context)) : system_context \in SystemContexts}

\* C39: for every model an agent attempts, one forced by a routing override
\* and absent from the agent's chain included, after failure_threshold
\* failed attempts in a row the agent's next query within recovery_timeout
\* skips the model without calling its transport.
C39_ForcedModelBreaker ==
    [][\A model \in AttemptedModels :
          FailedInARow(model) /\ QueryOn(model) =>
              ~Called(last_query', model)]_vars

-----------------------------------------------------------------------------
(* Properties of the routing override, under RoutedSpec *)

\* the model deliberate's route_task call decided on
RoutedModel == last_route.decision.model

\* the context the agent was queried with ends with the directive naming
\* the routed model
DirectiveInjected ==
    \E i \in DOMAIN last_query.system_context :
       /\ last_query.system_context[i] = "[SYSTEM: Use Model"
       /\ i < Len(last_query.system_context)
       /\ last_query.system_context[i + 1] = RoutedModel

-----------------------------------------------------------------------------
(* Properties of two councils over the same files, under SharedSpec *)

\* how often an entry occurs in a list
occurrences(list, entry) == Cardinality({i \in DOMAIN list : list[i] = entry})

\* what the files hold
PersistedConstraints == memory_store.constraints_file.content

PersistedIncidents == memory_store.incidents_file.content

\* C32: with two councils of one process interleaving their mutations,
\* every constraint and every incident either one recorded is in the files
\* of the store, and the state file of the ledger holds every spend
\* increment either one recorded.
C32_NoLostUpdates ==
    /\ \A id \in mutations.constraints :
          \E i \in DOMAIN PersistedConstraints : PersistedConstraints[i].id = id
    /\ \A i \in DOMAIN mutations.incidents :
          occurrences(PersistedIncidents, mutations.incidents[i])
              >= occurrences(mutations.incidents, mutations.incidents[i])
    /\ mutations.spend > 0 =>
          /\ state_file # NoFile
          /\ state_file.gemini_spend = mutations.spend

-----------------------------------------------------------------------------
(* Properties of the kernel, under KernelSpec *)

\* an execute_task call has just ended; outcome is what its deliberate call
\* returned or raised
TaskEnded == pc = "idle" /\ last_task.status # "none"

\* the council decided FAIL, or raised under FAIL_CLOSED
CouncilBlocks ==
    \/ outcome.kind = "return" /\ outcome.consensus.decision = "FAIL"
    \/ outcome.kind = "raise" /\ failure_policy = "fail_closed"

\* the incident the store recorded last
LastIncident == memory_store.incidents[Len(memory_store.incidents)]

\* C31: in enforcing mode, when the council decides FAIL or raises under
\* FAIL_CLOSED, execute_task ends with an error (GovernanceError, or the
\* council's own exception), the task is not executed and no result says
\* it was; in advisory mode a FAIL decision lets the task be executed, and
\* its outcome is the one recorded last in the store.
C31_EnforcingAdvisory ==
    TaskEnded =>
        /\ (enforcing /\ CouncilBlocks) =>
              /\ last_task.status = "raised"
              /\ last_task.error \in {"GovernanceError", "Exception"}
              /\ ~last_task.executed
              /\ \A i \in DOMAIN memory_store.incidents :
                    memory_store.incidents[i].decision = "FAIL" =>
                       memory_store.incidents[i].outcome = "BLOCKED"
        /\ (~enforcing /\ outcome.kind = "return"
               /\ outcome.consensus.decision = "FAIL") =>
              /\ last_task.status = "executed"
              /\ last_task.executed
              /\ last_task.outcome \in {"SUCCESS", "FAILURE"}
              /\ memory_store.incidents # <<>>
              /\ LastIncident.outcome = last_task.outcome
              /\ LastIncident.decision = "FAIL"

\* an enforcing kernel blocked a task the council failed, after it had
\* executed one the council passed
C31_BlockedAfterExecuted ==
    /\ TaskEnded
    /\ enforcing
    /\ outcome.kind = "return"
    /\ outcome.consensus.decision = "FAIL"
    /\ last_task.error = "GovernanceError"
    /\ Len(memory_store.incidents) = 2
    /\ memory_store.incidents[1].outcome = "FAILURE"
    /\ LastIncident.outcome = "BLOCKED"

-----------------------------------------------------------------------------
(* Properties of the bus, under BusSpec *)

\* the fingerprint of the action last published: its agent, action and
\* target, each "unknown" when the data leave it out
Fingerprint ==
    <<IF last_publish.data.agent = NoKey THEN "unknown"
      ELSE last_publish.data.agent,
      IF last_publish.data.action = NoKey THEN "unknown"
      ELSE last_publish.data.action,
      IF last_publish.data.target = NoKey THEN "unknown"
      ELSE last_publish.data.target>>

\* the fingerprints recorded up to and with the action last published
Recorded == Append(last_publish.history, Fingerprint)

\* the last n fingerprints of a sequence (all of them if it has fewer)
LastOf(fingerprints, n) ==
    IF Len(fingerprints) <= n THEN fingerprints
    ELSE SubSeq(fingerprints, Len(fingerprints) - n + 1, Len(fingerprints))

\* the publish call made a publish call for a LOOP_DETECTED event
LoopPublished ==
    \E i \in DOMAIN last_publish.published :
       last_publish.published[i].type = "loop_detected"

\* the callbacks that were called with the event last published, in order
CalledWithEvent ==
    SelectSeq(last_publish.dispatched,
              LAMBDA d : d.type = last_publish.event_type
                         /\ d.data = last_publish.data)

\* C29: publishing an agent-action event appends its fingerprint to the
\* window, which holds the last 10 fingerprints at most; a LOOP_DETECTED event
\* is published if and only if 3 fingerprints or more are recorded and the
\* last 3 are the same; and every subscriber of agent-action events is
\* called with the event, loop or no loop.
C29_LoopDetector ==
    last_publish.event_type = "agent_action" =>
        /\ history = LastOf(Recorded, 10)
        /\ Len(history) <= 10
        /\ LoopPublished <=>
              /\ Len(Recorded) >= 3
              /\ \A i \in 1..3 : LastOf(Recorded, 3)[i] = Fingerprint
        /\ IF "agent_action" \in DOMAIN subscribers
           THEN [i \in DOMAIN CalledWithEvent |-> CalledWithEvent[i].callback]
                   = subscribers["agent_action"]
           ELSE CalledWithEvent = <<>>

\* a third identical action was published to a full window: the loop event
\* went to a callback that raises, and the action to its own subscriber
C29_LoopOnFullWindow ==
    /\ last_publish.event_type = "agent_action"
    /\ Len(last_publish.history) = 10
    /\ last_publish.history[1] # last_publish.history[10]
    /\ LoopPublished
    /\ "loop_detected" \in DOMAIN subscribers
    /\ "agent_action" \in DOMAIN subscribers
    /\ subscribers["loop_detected"] = <<"handle_raises">>
    /\ Len(CalledWithEvent) = 1

-----------------------------------------------------------------------------
(* Properties of the model rotation, under RotationSpec *)

\* the last call recorded a Groq usage for a model of the configured list
RecordedOnConfiguredModel ==
    /\ last_route.op = "record_usage"
    /\ last_route.provider = "groq"
    /\ \E i \in DOMAIN groq_models : groq_models[i].name = last_route.model

\* C21: recording a usage with status 429 for a model makes the next model
\* of the list the current one, wrapping around and staying within the list,
\* so that the model chosen for the next non-security request is not the
\* rate-limited one; recording any other status leaves the current model
\* unchanged.
C21_RotationOn429 ==
    RecordedOnConfiguredModel =>
        /\ current_model_index \in 0..(Len(groq_models) - 1)
        /\ IF last_route.status_code = 429
           THEN /\ current_model_index =
                       (last_route.index_before + 1) % Len(groq_models)
                /\ Len(groq_models) > 1 =>
                       get_model_for_task(TokenManager.groq_manager,
                                          default_complexity, "general").name
                           # last_route.model
           ELSE current_model_index = last_route.index_before

-----------------------------------------------------------------------------
(* Properties of routed queries, under RoutedSpec *)

\* the provider whose transport query uses for a model (line 87)
ProviderOfModel(model) ==
    IF model \in {"gemini-3-pro", "gemini-3-flash", "gemini-2.5-flash"}
    THEN "google" ELSE "groq"

\* the Ledger denies a request on the model now: the daily budget cannot
\* cover it, or the model's requests of the minute reached its limit
LedgerDenies(model) ==
    IF ProviderOfModel(model) = "google"
    THEN ~can_make_request(TokenManager, "google", default_estimated_tokens,
                           default_complexity, "general").allowed
    ELSE ~groq_can_make_request(TokenManager.groq_manager, model,
                                default_estimated_tokens).allowed

\* C18: Ledger denials are honoured end to end.  The model a deliberation is
\* routed to is one the Ledger allows, and the agent's query makes no
\* transport call on a model the Ledger denies.
C18_DenialHonoured ==
    last_query.op = "routed_query" =>
        /\ ~LedgerDenies(last_route.decision.model)
        /\ \A i \in DOMAIN last_query.calls :
              ~LedgerDenies(last_query.calls[i].model)

====
